---- MODULE Spec2Model ----
(***************************************************************************)
(* A model of the session orchestration layer of VideoRAG:                 *)
(*   - the shared model service (GlobalImageBindManager) and its lock,     *)
(*   - the status store (write_status_json / read_status_json),            *)
(*   - the process manager and the indexing worker pipeline.               *)
(* Every group of variables has a specification of its own; the others     *)
(* stay at their initial values under it.                                   *)
(***************************************************************************)
EXTENDS Integers, Sequences, FiniteSets, TLC

VARIABLES
    \* ---- GlobalImageBindManager (videorag_api.py:98-250)
    is_initialized,   \* self.is_initialized
    is_loaded,        \* self.is_loaded
    embedder,         \* self.embedder: "None", "raw" (constructed, no weights), "ready"
    usage_count,      \* self.usage_count
    model_path,       \* self.model_path: "None" or a path
    model_config,     \* self.model_config: "None" or <<model_path, device>>
    lock,             \* self._lock: 0 when free, else the thread holding it
    thr,              \* the server threads: the manager call each is in
    weight_loads,     \* load_state_dict runs since the embedder was last freed
    \* ---- status store: one status.json and its status.json.tmp (videorag_api.py:50-72)
    names,            \* the directory: path -> inode (0: no such file)
    inode,            \* inode -> the chunks the file holds
    wr,               \* the processes inside write_status_json
    rd,               \* the processes inside read_status_json
    \* ---- process manager, workers and what they share (videorag_api.py:336-713)
    global_config,      \* VideoRAGProcessManager.global_config: "None" or "set"
    running_processes,  \* VideoRAGProcessManager.running_processes: key -> pid
    procs,              \* the worker processes spawned so far, by pid
    orch,               \* the request the orchestrator is serving
    status_doc,         \* session -> its status.json
    disk_segments,      \* session -> the video_segments store on disk
    cache_dirs,         \* session -> the videos that have a _cache/<name> directory
    session_dirs,       \* the sessions whose chat-<chat_id> directory exists
    scenario,           \* what the client and the videos are like; never changes
    \* ---- the calls a worker makes to its collaborators
    http,               \* HTTPImageBindClient: the call under way and those done
    asr,                \* speech_to_text_online: the semaphore and the tasks of one stage
    graph,              \* VideoRAG.ainsert: the chunk stores and the call under way
    cap,                \* segment_caption_async: the caption calls of one stage
    \* ---- the main thread of the server at shutdown (videorag_api.py:1347-1442)
    shut                \* its call stack, _cleanup_called and what cleanup has done

mgrVars == <<is_initialized, is_loaded, embedder, usage_count, model_path,
             model_config, lock, thr, weight_loads>>

storeVars == <<names, inode, wr, rd>>

pmVars == <<global_config, running_processes, procs, orch, status_doc,
            disk_segments, cache_dirs, session_dirs, scenario>>

auxVars == <<http, asr, graph, cap, shut>>

vars == <<mgrVars, storeVars, pmVars, auxVars>>

\* ------------------------------------------------------------------ bounds
NThreads == 2
MaxUsage == 2
LoadCap == 2
NReaders == 1
DocLen == 2
MaxWriters == 2
MaxProcs == 2
MaxVideos == 2
MaxSegs == 2
MaxCalls == 2
MaxAsrSegs == 3
MaxInserts == 3
MaxSignals == 2

\* asr.py:44: the parameter max_concurrent of speech_to_text_online (5 when
\* the caller passes none); the stages examined have fewer permits than
\* segments
max_concurrent == 2

Min(a, b) == IF a < b THEN a ELSE b

(***************************************************************************)
(*                       GlobalImageBindManager                            *)
(***************************************************************************)
Threads == 1..NThreads

\* the model paths a caller configures (initialize_system passes only a
\* non-empty one, line 888); only GoodPath is a file on disk
GoodPath == "imagebind.pth"
Paths == {GoodPath, "missing.pth"}
PathExists(p) == p = GoodPath

MgrOps == {"initialize", "ensure", "release", "encode_video", "encode_query",
           "get_status", "cleanup"}

\* no dict of get_status has been returned to the thread
NoSnap == [initialized |-> FALSE, loaded |-> FALSE, total_usage_count |-> 0,
           device |-> "None", held |-> FALSE]

IdleThread == [op |-> "none", meth |-> "none", pc |-> "idle", arg |-> "None",
               ret |-> "none", snap |-> NoSnap]

MgrInit ==
    /\ is_initialized = FALSE
    /\ is_loaded = FALSE
    /\ embedder = "None"
    /\ usage_count = 0
    /\ model_path = "None"
    /\ model_config = "None"
    /\ lock = 0
    /\ thr = [t \in Threads |-> IdleThread]
    /\ weight_loads = 0

\* `with self._lock:` entered: blocks until the lock is free
LockAcquireNoExclusion(t) == lock' = lock /\ UNCHANGED <<storeVars, pmVars, auxVars>>
LockAcquire(t) == lock = 0 /\ lock' = t /\ UNCHANGED <<storeVars, pmVars, auxVars>>

\* `with self._lock:` left, by return or by exception
LockRelease(t) ==
    /\ lock' = IF lock = t THEN 0 ELSE lock
    /\ UNCHANGED <<storeVars, pmVars, auxVars>>

\* the call of thread t returns r (or raises r) out of the with block
Return(t, r) == thr' = [thr EXCEPT ![t].pc = "idle", ![t].meth = "none",
                                   ![t].arg = "None", ![t].ret = r]

\* a server thread enters one manager method and its `with self._lock:` block
MgrCall(t) ==
    /\ thr[t].pc = "idle"
    /\ LockAcquire(t)
    /\ \E op \in MgrOps :
        /\ op \in {"encode_video", "encode_query"} => usage_count < MaxUsage
        /\ \E p \in IF op = "initialize" THEN Paths ELSE {"None"} :
             thr' = [thr EXCEPT ![t] =
                       [op |-> op,
                        meth |-> IF op = "cleanup" THEN "release" ELSE op,
                        pc |-> "body", arg |-> p, ret |-> "none",
                        snap |-> NoSnap]]
    /\ UNCHANGED <<is_initialized, is_loaded, embedder, usage_count, model_path,
                   model_config, weight_loads>>

\* cleanup, line 246: its second `with self._lock:` block is entered
CleanupLock(t) ==
    /\ thr[t].pc = "lock" /\ thr[t].meth = "cleanup"
    /\ LockAcquire(t)
    /\ thr' = [thr EXCEPT ![t].pc = "body"]
    /\ UNCHANGED <<is_initialized, is_loaded, embedder, usage_count, model_path,
                   model_config, weight_loads>>

\* initialize(model_path), lines 112-122
Initialize(t) ==
    /\ thr[t].pc = "body" /\ thr[t].meth = "initialize"
    /\ model_path' = thr[t].arg
    /\ model_config' = <<thr[t].arg, "None">>
    /\ is_initialized' = TRUE
    /\ Return(t, "True")
    /\ LockRelease(t)
    /\ UNCHANGED <<is_loaded, embedder, usage_count, weight_loads>>

\* ensure_imagebind_loaded, lines 126-154: the checks, then the model object
EnsureCheckAlwaysLoad(t) ==
    /\ thr[t].pc = "body" /\ thr[t].meth = "ensure"
    /\ IF ~is_initialized \/ model_path \in {"None", ""}
       THEN /\ Return(t, "RuntimeError: not initialized")
            /\ LockRelease(t)
            /\ UNCHANGED embedder
       ELSE /\ embedder' = "raw"
            /\ thr' = [thr EXCEPT ![t].pc = "load"]
            /\ UNCHANGED <<lock, storeVars, pmVars, auxVars>>
    /\ UNCHANGED <<is_initialized, is_loaded, usage_count, model_path,
                   model_config, weight_loads>>

EnsureCheck(t) ==
    /\ thr[t].pc = "body" /\ thr[t].meth = "ensure"
    /\ IF is_loaded
       THEN /\ Return(t, "True")
            /\ LockRelease(t)
            /\ UNCHANGED embedder
       ELSE IF ~is_initialized \/ model_path \in {"None", ""}
       THEN /\ Return(t, "RuntimeError: not initialized")
            /\ LockRelease(t)
            /\ UNCHANGED embedder
       ELSE /\ embedder' = "raw"
            /\ thr' = [thr EXCEPT ![t].pc = "load"]
            /\ UNCHANGED <<lock, storeVars, pmVars, auxVars>>
    /\ UNCHANGED <<is_initialized, is_loaded, usage_count, model_path,
                   model_config, weight_loads>>

\* ensure_imagebind_loaded, lines 156-174: the weights
EnsureLoad(t) ==
    /\ thr[t].pc = "load" /\ thr[t].meth = "ensure"
    /\ IF ~PathExists(model_path)
       THEN /\ Return(t, "FileNotFoundError")
            /\ UNCHANGED <<embedder, model_config, is_loaded, weight_loads>>
       ELSE /\ embedder' = "ready"
            /\ weight_loads' = Min(weight_loads + 1, LoadCap)
            /\ model_config' = <<model_config[1], "device">>
            /\ is_loaded' = TRUE
            /\ Return(t, "True")
    /\ LockRelease(t)
    /\ UNCHANGED <<is_initialized, usage_count, model_path>>

\* release_imagebind, lines 176-200; cleanup goes on to its own with block
Release(t) ==
    /\ thr[t].pc = "body" /\ thr[t].meth = "release"
    /\ IF ~is_loaded
       THEN UNCHANGED <<embedder, is_loaded, weight_loads>>
       ELSE /\ embedder' = "None"
            /\ is_loaded' = FALSE
            /\ weight_loads' = 0
    /\ IF thr[t].op = "cleanup"
       THEN thr' = [thr EXCEPT ![t].pc = "lock", ![t].meth = "cleanup"]
       ELSE Return(t, "True")
    /\ LockRelease(t)
    /\ UNCHANGED <<is_initialized, usage_count, model_path, model_config>>

\* encode_video_segments / encode_string_query, lines 204-208 and 217-221
EncodeCheckCountFirst(t) ==
    /\ thr[t].pc = "body" /\ thr[t].meth \in {"encode_video", "encode_query"}
    /\ usage_count' = usage_count + 1
    /\ IF ~is_loaded
       THEN /\ Return(t, "RuntimeError: not loaded")
            /\ LockRelease(t)
       ELSE /\ thr' = [thr EXCEPT ![t].pc = "forward"]
            /\ UNCHANGED <<lock, storeVars, pmVars, auxVars>>
    /\ UNCHANGED <<is_initialized, is_loaded, embedder, model_path,
                   model_config, weight_loads>>

EncodeCheck(t) ==
    /\ thr[t].pc = "body" /\ thr[t].meth \in {"encode_video", "encode_query"}
    /\ IF ~is_loaded
       THEN /\ Return(t, "RuntimeError: not loaded")
            /\ LockRelease(t)
            /\ UNCHANGED usage_count
       ELSE /\ usage_count' = usage_count + 1
            /\ thr' = [thr EXCEPT ![t].pc = "forward"]
            /\ UNCHANGED <<lock, storeVars, pmVars, auxVars>>
    /\ UNCHANGED <<is_initialized, is_loaded, embedder, model_path,
                   model_config, weight_loads>>

\* the forward pass of the model, lines 210-213 and 223-230: a vector, or
\* whatever the model raises
EncodeForward(t) ==
    /\ thr[t].pc = "forward"
    /\ \E r \in {"vector", "Exception"} : Return(t, r)
    /\ LockRelease(t)
    /\ UNCHANGED <<is_initialized, is_loaded, embedder, usage_count, model_path,
                   model_config, weight_loads>>

\* str(next(self.embedder.parameters()).device) if self.embedder else None
Device == IF embedder # "None" THEN "device" ELSE "None"

\* the dict of a get_status that names a device whenever a model path is
\* configured
StatusDictConfigured(t) ==
    [initialized |-> is_initialized, loaded |-> is_loaded,
     total_usage_count |-> usage_count,
     device |-> IF is_initialized THEN "device" ELSE "None", held |-> TRUE]

\* lines 235-241: the dict get_status builds; held says that it was built
\* inside the with block
StatusDict(t) ==
    [initialized |-> is_initialized, loaded |-> is_loaded,
     total_usage_count |-> usage_count, device |-> Device, held |-> lock = t]

\* get_status, lines 232-241: the dict is built inside the with block
GetStatus(t) ==
    /\ thr[t].pc = "body" /\ thr[t].meth = "get_status"
    /\ thr' = [thr EXCEPT ![t].pc = "return", ![t].snap = StatusDict(t)]
    /\ UNCHANGED <<lock, storeVars, pmVars, auxVars>>
    /\ UNCHANGED <<is_initialized, is_loaded, embedder, usage_count, model_path,
                   model_config, weight_loads>>

\* get_status leaves its with block and hands the dict to its caller
GetStatusReturns(t) ==
    /\ thr[t].pc = "return" /\ thr[t].meth = "get_status"
    /\ thr' = [thr EXCEPT ![t] = [IdleThread EXCEPT !.op = thr[t].op,
                                                    !.ret = "status"]]
    /\ LockRelease(t)
    /\ UNCHANGED <<is_initialized, is_loaded, embedder, usage_count, model_path,
                   model_config, weight_loads>>

\* cleanup, lines 246-250: the second with block
Cleanup(t) ==
    /\ thr[t].pc = "body" /\ thr[t].meth = "cleanup"
    /\ is_initialized' = FALSE
    /\ model_path' = "None"
    /\ model_config' = "None"
    /\ Return(t, "None")
    /\ LockRelease(t)
    /\ UNCHANGED <<is_loaded, embedder, usage_count, weight_loads>>

MgrNext ==
    \E t \in Threads :
        \/ MgrCall(t)
        \/ CleanupLock(t)
        \/ Initialize(t)
        \/ EnsureCheck(t)
        \/ EnsureLoad(t)
        \/ Release(t)
        \/ EncodeCheck(t)
        \/ EncodeForward(t)
        \/ GetStatus(t)
        \/ GetStatusReturns(t)
        \/ Cleanup(t)


(***************************************************************************)
(*              Status store: write_status_json / read_status_json         *)
(***************************************************************************)
\* the documents a caller hands to write_status_json
Docs == {"doc1", "doc2"}

Readers == 1..NReaders

\* the processes that may write the status file of one session
WriterIds == 1..MaxWriters

\* inodes: one per path, one per open file descriptor
InodeIds == 1..(NReaders + 4)

\* a writer keeps what the path held when its call began (before) and the
\* statement of write_status_json that failed, if one did (failed)
IdleWriter == [pc |-> "idle", doc |-> "none", fd |-> 0, off |-> 0, ret |-> "none",
               before |-> "none", failed |-> "none"]

\* write_status_json returns, or raises
WriteReturn(w, r) ==
    [wr EXCEPT ![w] = [IdleWriter EXCEPT !.ret = r, !.before = wr[w].before,
                                         !.failed = wr[w].failed]]
\* a reader keeps, during a call, the documents the path held since the call
\* began; after it, what it returned, whether that was one of them (legit),
\* whether what it parsed was truncated (partial), and whether the path was
\* replaced during the call (raced)
IdleReader == [pc |-> "idle", fd |-> 0, ret |-> "none", partial |-> FALSE,
               legit |-> TRUE, raced |-> FALSE, during |-> {}]

\* read_status_json returns: `got` is the parsed document or the error caught
ReadReturn(r, got) ==
    LET res == IF got = "JSONDecodeError" THEN "{}" ELSE got
    IN  [rd EXCEPT ![r] = [pc |-> "idle", fd |-> 0, ret |-> res,
                           partial |-> (got = "JSONDecodeError"),
                           legit |-> (res \in rd[r].during),
                           raced |-> (Cardinality(rd[r].during) > 1),
                           during |-> {}]]

\* json.dump(status_data): the document as the chunks written to the file
Dump(doc) == [i \in 1..DocLen |-> doc]

\* json.load(f): the document, or a JSONDecodeError for anything that is not
\* one whole document
Load(content) ==
    IF \E doc \in Docs : content = Dump(doc)
    THEN content[1]
    ELSE "JSONDecodeError"

\* what a complete read of path `target` gives in this state
Stored == IF names.target = 0 THEN "{}" ELSE Load(inode[names.target])

\* an inode lives while a path or an open descriptor refers to it
Referenced(i, nm, w_, r_) ==
    \/ i \in {nm.target, nm.temp}
    \/ \E w \in DOMAIN w_ : w_[w].fd = i
    \/ \E r \in DOMAIN r_ : r_[r].fd = i

FreshInode ==
    CHOOSE i \in InodeIds :
        /\ ~Referenced(i, names, wr, rd)
        /\ \A j \in InodeIds : ~Referenced(j, names, wr, rd) => i <= j

\* the file system after a step: unreferenced inodes are gone
Settle(content, nm, w_, r_) ==
    /\ names' = nm
    /\ wr' = w_
    /\ rd' = r_
    /\ inode' = [i \in InodeIds |->
                   IF Referenced(i, nm, w_, r_) THEN content[i] ELSE <<>>]
    /\ UNCHANGED <<mgrVars, pmVars, auxVars>>

\* readers inside a call see one more document stored under the path
Witnessing(r_, doc) ==
    [r \in DOMAIN r_ |->
        IF r_[r].pc = "idle" THEN r_[r]
        ELSE [r_[r] EXCEPT !.during = @ \cup {doc}]]

StoreInit(writers) ==
    /\ names = [target |-> 0, temp |-> 0]
    /\ inode = [i \in InodeIds |-> <<>>]
    /\ wr = [w \in writers |-> IdleWriter]
    /\ rd = [r \in Readers |-> IdleReader]

\* write_status_json, line 54: open(temp_file, 'w') creates or truncates
\* file_path + ".tmp"; the mutant opens file_path itself
OpenForWriteInPlace(w, doc) ==
    LET id == IF names.target = 0 THEN FreshInode ELSE names.target
        w2 == [wr EXCEPT ![w] = [pc |-> "dump", doc |-> doc, fd |-> id,
                                 off |-> 0, ret |-> "none",
                                 before |-> Stored, failed |-> "none"]]
    IN  Settle([inode EXCEPT ![id] = <<>>], [names EXCEPT !.target = id], w2, rd)

OpenForWrite(w, doc) ==
    LET id == IF names.temp = 0 THEN FreshInode ELSE names.temp
        w2 == [wr EXCEPT ![w] = [pc |-> "dump", doc |-> doc, fd |-> id,
                                 off |-> 0, ret |-> "none",
                                 before |-> Stored, failed |-> "none"]]
    IN  Settle([inode EXCEPT ![id] = <<>>], [names EXCEPT !.temp = id], w2, rd)

\* a process calls write_status_json(file_path, status_data); open may fail
WriteOpen(w) ==
    /\ w \in DOMAIN wr
    /\ wr[w].pc = "idle"
    /\ \E doc \in Docs :
        \/ OpenForWrite(w, doc)
        \/ Settle(inode, names,
                  [wr EXCEPT ![w] = [IdleWriter EXCEPT !.pc = "except",
                                                       !.before = Stored,
                                                       !.failed = "open"]],
                  rd)

\* the bytes of one chunk written at the descriptor's offset
WriteAt(content, off, doc) ==
    [i \in 1..(IF Len(content) > off THEN Len(content) ELSE off + 1) |->
        IF i = off + 1 THEN doc
        ELSE IF i <= Len(content) THEN content[i] ELSE "hole"]

\* json.dump, line 55: one more chunk reaches the file, the last one closes
\* it; or the dump raises and the with block closes the file
WriteChunk(w) ==
    /\ w \in DOMAIN wr
    /\ wr[w].pc = "dump"
    /\ \/ LET last == wr[w].off + 1 = DocLen
              w2 == [wr EXCEPT ![w].off = @ + 1,
                               ![w].fd = IF last THEN 0 ELSE @,
                               ![w].pc = IF last THEN "rename" ELSE "dump"]
          IN  Settle([inode EXCEPT ![wr[w].fd] = WriteAt(@, wr[w].off, wr[w].doc)],
                     names, w2, rd)
       \/ Settle(inode, names,
                 [wr EXCEPT ![w].fd = 0, ![w].pc = "except", ![w].failed = "dump"],
                 rd)

\* os.rename(temp_file, file_path), line 57: atomic replace, or an OSError
\* (no temp file, or a platform that refuses an existing target)
WriteRename(w) ==
    /\ w \in DOMAIN wr
    /\ wr[w].pc = "rename"
    /\ \/ /\ names.temp # 0
          /\ Settle(inode, [target |-> names.temp, temp |-> 0],
                    WriteReturn(w, "ok"),
                    Witnessing(rd, Load(inode[names.temp])))
       \/ Settle(inode, names,
                 [wr EXCEPT ![w].pc = "except", ![w].failed = "rename"], rd)

\* an except clause that raises and leaves the temp file where it is
WriteExceptKeepTemp(w) ==
    /\ w \in DOMAIN wr
    /\ wr[w].pc = "except"
    /\ Settle(inode, names, WriteReturn(w, "raise"), rd)

\* lines 58-61: remove the temp file if there is one, raise
WriteExcept(w) ==
    /\ w \in DOMAIN wr
    /\ wr[w].pc = "except"
    /\ Settle(inode, [names EXCEPT !.temp = 0],
              WriteReturn(w, "raise"), rd)

\* a read without the exists test and the except clause: open raises
\* FileNotFoundError to the caller
ReadExistsRaises(r) ==
    /\ rd[r].pc = "idle"
    /\ IF names.target = 0
       THEN Settle(inode, names, wr, [rd EXCEPT ![r] = [IdleReader EXCEPT !.ret = "raise"]])
       ELSE Settle(inode, names, wr,
                   [rd EXCEPT ![r] = [IdleReader EXCEPT !.pc = "open",
                                                        !.during = {Stored}]])

\* read_status_json, lines 66-67: os.path.exists
ReadExists(r) ==
    /\ rd[r].pc = "idle"
    /\ IF names.target = 0
       THEN Settle(inode, names, wr, [rd EXCEPT ![r] = [IdleReader EXCEPT !.ret = "{}"]])
       ELSE Settle(inode, names, wr,
                   [rd EXCEPT ![r] = [IdleReader EXCEPT !.pc = "open",
                                                        !.during = {Stored}]])

\* line 68: open(file_path, 'r')
ReadOpen(r) ==
    /\ rd[r].pc = "open"
    /\ IF names.target = 0
       THEN Settle(inode, names, wr, ReadReturn(r, "{}"))
       ELSE Settle(inode, names, wr,
                   [rd EXCEPT ![r].pc = "load", ![r].fd = names.target])

\* lines 69-72: json.load of what the open file holds now; a decode error is
\* logged and the empty document returned
ReadLoad(r) ==
    /\ rd[r].pc = "load"
    /\ Settle(inode, names, wr, ReadReturn(r, Load(inode[rd[r].fd])))

\* a process makes its first call of write_status_json
WriteFirst(w) ==
    /\ w \in DOMAIN wr
    /\ wr[w] = IdleWriter
    /\ WriteOpen(w)

\* every process writes the document once, with reads at any time
WritersNext ==
    \/ \E w \in WriterIds :
        \/ WriteFirst(w)
        \/ WriteChunk(w)
        \/ WriteRename(w)
        \/ WriteExcept(w)
    \/ \E r \in Readers :
        \/ ReadExists(r)
        \/ ReadOpen(r)
        \/ ReadLoad(r)

StoreNext ==
    \/ \E w \in WriterIds :
        \/ WriteOpen(w)
        \/ WriteChunk(w)
        \/ WriteRename(w)
        \/ WriteExcept(w)
    \/ \E r \in Readers :
        \/ ReadExists(r)
        \/ ReadOpen(r)
        \/ ReadLoad(r)

(***************************************************************************)
(*     Process manager, indexing worker and VideoRAG.insert_video          *)
(*                                                                         *)
(* The orchestrator serves one request at a time; a request is several     *)
(* steps, and the worker processes run between them.  update_session_status*)
(* is a read of status.json followed, in a later step, by the write of the *)
(* merged document.                                                        *)
(***************************************************************************)
Sessions == {"a", "a_query"}
Pids == 1..MaxProcs

\* process_key = f"{chat_id}_query", line 417
QueryKey(chat_id) == chat_id \o "_query"

\* video paths: a directory and the dot-separated pieces of the file name
PathA == [dir |-> "/videos", base |-> <<"a", "mp4">>]
PathB == [dir |-> "/videos", base |-> <<"b", "v2", "mp4">>]
VideoPaths == {PathA, PathB}

\* video_name = os.path.basename(video_path).split('.')[0], line 313
VideoName(path) == path.base[1]

\* the non-empty video_path_list values upload_video lets through
VideoLists == UNION {[1..n -> VideoPaths] : n \in 1..MaxVideos}

\* split_video cuts every video of the scenario into this many segments
Segs == 1..scenario.nsegs

Digit == <<"1", "2", "3", "4", "5", "6">>

\* the text the recognition service returns for segment i (asr.py:30-35)
SpeechText(i) == "speech-" \o Digit[i]

\* what the caption model answers for segment i, as pieces of text
RawCaption(i) == <<"caption-", "\n", Digit[i], "<|endoftext|>">>

RECURSIVE Join(_)
Join(pieces) == IF pieces = <<>> THEN "" ELSE Head(pieces) \o Join(Tail(pieces))

\* segment_caption.replace("\n", "").replace("<|endoftext|>", ""), caption.py:41
CleanCaption(pieces) ==
    LET Keep(x) == x \notin {"\n", "<|endoftext|>"}
    IN  Join(SelectSeq(pieces, Keep))

\* ---- status.json as a record; "absent" marks a key the document lacks
AbsentIdx == [status |-> "absent", step |-> "absent"]
AbsentQry == [status |-> "absent", step |-> "absent", query |-> "absent",
              answer |-> "absent", message |-> "absent"]
NoDoc == [exists |-> FALSE, idx |-> AbsentIdx, qry |-> AbsentQry, videos |-> <<>>]

\* initial_status of start_video_indexing, lines 354-364
InitialStatus ==
    [exists |-> TRUE,
     idx |-> [status |-> "processing", step |-> "Initializing"],
     qry |-> AbsentQry,
     videos |-> <<>>]

\* dict.update: the keys of the patch replace those of the channel
Merge(channel, patch) ==
    [k \in DOMAIN channel |-> IF k \in DOMAIN patch THEN patch[k] ELSE channel[k]]

\* update_session_status, lines 88-95: the document written, from the one read
UpdateSessionStatus(current, status_type, patch) ==
    IF status_type = "indexing_status"
    THEN [current EXCEPT !.exists = TRUE, !.idx = Merge(@, patch)]
    ELSE [current EXCEPT !.exists = TRUE, !.qry = Merge(@, patch)]

\* add_indexed_video, lines 616-623
AddIndexedVideo(current, video_path) ==
    [current EXCEPT !.exists = TRUE, !.videos = Append(@, video_path)]

\* get_indexed_videos, lines 494-506
GetIndexedVideos(chat_id) == status_doc[chat_id].videos

\* a status update under way: the document read (lines 82-85) and the patch
NoUpd == [type |-> "none", patch |-> AbsentIdx, snap |-> NoDoc, video |-> "None"]
ReadForUpdate(chat_id, status_type, patch) ==
    [type |-> status_type, patch |-> patch, snap |-> status_doc[chat_id],
     video |-> "None"]

\* progress_callback, lines 680-686: the patch for a step name
ProgressPatch(step_name) ==
    [status |-> IF step_name # "Completed" THEN "processing" ELSE "completed",
     step |-> step_name]

\* ---- the key-value stores of VideoRAG: video name -> segment records
EmptyStore == <<>>
Put(store, name, rec) ==
    [n \in DOMAIN store \cup {name} |-> IF n = name THEN rec ELSE store[n]]

\* index_video_worker_process entered in a fresh process
NewIndexWorker(chat_id, video_path_list) ==
    [kind |-> "index", session |-> chat_id, list |-> video_path_list,
     query |-> "None",          \* the query of a query worker
     alive |-> TRUE, sigterm |-> FALSE, pc |-> "begin", vi |-> 1,
     upd |-> NoUpd,
     data |-> EmptyStore,       \* video_segments._data
     tr |-> <<>>,               \* transcripts of the video in hand
     loaded |-> {},             \* the names video_segments held when loaded
     fault |-> FALSE,           \* a collaborator of the run has failed
     did |-> {},                \* <<name, stage>> performed by this run
     outcome |-> "none"]

\* a process that has ended: its memory is gone, the handle object remains
Ended(w) ==
    [NewIndexWorker(w.session, w.list) EXCEPT
        !.kind = w.kind, !.query = w.query,
        !.alive = FALSE, !.pc = "done", !.outcome = w.outcome]

IdleOrch == [pc |-> "idle", op |-> "none", sid |-> "none", list |-> <<>>,
             target |-> 0, escalated |-> FALSE, upd |-> NoUpd,
             \* cleanup: the processes tracked when it began, those its second
             \* loop killed and those its sweep of the process table killed
             tracked |-> {}, killed |-> {}, swept |-> {},
             \* the processes of other programs that the sweep killed
             swept_others |-> {}]

Spawned == 1..Len(procs)
Alive(p) == p \in Spawned /\ procs[p].alive
LiveIndexWorkers(chat_id) ==
    {p \in Spawned : procs[p].alive /\ procs[p].kind = "index"
                     /\ procs[p].session = chat_id}

PMInit(sc) ==
    /\ global_config = "None"
    /\ running_processes = <<>>
    /\ procs = <<>>
    /\ orch = IdleOrch
    /\ status_doc = [s \in Sessions |-> NoDoc]
    /\ disk_segments = [s \in Sessions |-> EmptyStore]
    /\ cache_dirs = [s \in Sessions |-> {}]
    /\ session_dirs = {}
    /\ scenario = sc

\* ---- the surroundings of a behaviour: which requests arrive and how the
\* external services answer.  asr[i] and cap[i] say whether the recognition
\* and the caption call of segment i raise; fault names the stage whose
\* collaborator fails during the first run of the behaviour.
AsrOutcomes == {"text", "raise"}
CaptionOutcomes == {"text", "raise"}
Faults == {"none", "verify", "split", "encode", "graph"}

\* what GET /api/imagebind/status gives a worker: no answer, or the flags
\* initialized and loaded of the manager
Services == {"unreachable", "uninitialized", "configured", "loaded"}

\* videorag_instance.query(...) gives a response or raises
QueryOutcomes == {"text", "raise"}

\* up to two workers at a time, one video of one segment, services that answer
ProcScenario ==
    [sessions |-> {"a"}, overlap |-> 2, runs |-> MaxProcs, nsegs |-> 1,
     lists |-> {<<PathA>>},
     asr |-> <<"text">>, cap |-> <<"text">>, fault |-> "none",
     service |-> "loaded", answer |-> "text", api_key |-> "sk-key"]

\* a run and a re-run, one after the other, on videos of MaxSegs segments
PipeScenarios ==
    {[sessions |-> {"a"}, overlap |-> 1, runs |-> 2, nsegs |-> MaxSegs,
      lists |-> VideoLists, asr |-> a, cap |-> c, fault |-> f,
      service |-> "loaded", answer |-> "text", api_key |-> "sk-key"] :
        a \in [1..MaxSegs -> AsrOutcomes],
        c \in [1..MaxSegs -> CaptionOutcomes],
        f \in Faults}
    \cup
    \* the same runs with ali_dashscope_api_key missing from the settings
    {[sessions |-> {"a"}, overlap |-> 1, runs |-> 2, nsegs |-> MaxSegs,
      lists |-> VideoLists,
      asr |-> [i \in 1..MaxSegs |-> "text"],
      cap |-> [i \in 1..MaxSegs |-> "text"], fault |-> "none",
      service |-> "loaded", answer |-> "text", api_key |-> k] :
        k \in {"None", ""}}

Fails(p, stage) == scenario.fault = stage /\ p = 1

\* requests for indexing and for queries, one worker at a time, with every
\* answer of the model service and both outcomes of the query
QueryScenarios ==
    {[sessions |-> {"a"}, overlap |-> 1, runs |-> MaxProcs, nsegs |-> 1,
      lists |-> {<<PathA>>},
      asr |-> <<"text">>, cap |-> <<"text">>, fault |-> "none",
      service |-> sv, answer |-> an, api_key |-> "sk-key"] :
        sv \in Services, an \in QueryOutcomes}

\* videorag_api.py:635-640 and 753-758: get_status raised, or the answer
\* says initialized is false
VerifyRaises == scenario.service \in {"unreachable", "uninitialized"}

\* videorag.py:135: VideoRAG.__post_init__ asserts the credential is not None
PostInitRaises == scenario.api_key = "None"

\* a transcription stage that does not look at the credential
SpeechToTextRaisesNever == FALSE

\* asr.py:114-117: speech_to_text_async raises ValueError on `not api_key`
SpeechToTextRaises == scenario.api_key \in {"None", ""}

PMFrame == UNCHANGED <<mgrVars, storeVars, scenario, auxVars>>

\* get_session_status_file, lines 74-78: os.makedirs(session_dir,
\* exist_ok=True); the directories there are after the call
GetSessionStatusFile(chat_id) == session_dirs \cup {chat_id}

(***************************************************************************)
(*                        VideoRAGProcessManager                           *)
(***************************************************************************)
\* set_global_config, lines 343-347 (POST /api/initialize)
SetGlobalConfig ==
    /\ orch.pc = "idle"
    /\ global_config = "None"
    /\ global_config' = "set"
    /\ UNCHANGED <<running_processes, procs, orch, status_doc, disk_segments,
                   cache_dirs, session_dirs>>
    /\ PMFrame

\* start_video_indexing, lines 353-367: the initial status document replaces
\* whatever status.json held
StartVideoIndexing(chat_id, video_path_list) ==
    /\ orch.pc = "idle"
    /\ global_config = "set"
    /\ chat_id \in scenario.sessions
    /\ video_path_list \in scenario.lists
    /\ Len(procs) < Min(scenario.runs, MaxProcs)
    /\ Cardinality({p \in Spawned : procs[p].alive}) < scenario.overlap
    /\ session_dirs' = GetSessionStatusFile(chat_id)
    /\ status_doc' = [status_doc EXCEPT ![chat_id] = InitialStatus]
    /\ orch' = [IdleOrch EXCEPT !.pc = "spawn", !.op = "start_video_indexing",
                                !.sid = chat_id, !.list = video_path_list]
    /\ UNCHANGED <<global_config, running_processes, procs, disk_segments,
                   cache_dirs>>
    /\ PMFrame

\* lines 379-385: self.running_processes[chat_id] = {...}
RecordProcess(chat_id, pid) ==
    [k \in DOMAIN running_processes \cup {chat_id} |->
        IF k = chat_id THEN pid ELSE running_processes[k]]

\* start_video_indexing, lines 373-387: process.start(), the handle recorded
StartIndexingSpawn ==
    /\ orch.pc = "spawn" /\ orch.op = "start_video_indexing"
    /\ procs' = Append(procs, NewIndexWorker(orch.sid, orch.list))
    /\ running_processes' = RecordProcess(orch.sid, Len(procs) + 1)
    /\ orch' = [orch EXCEPT !.pc = "idle", !.target = Len(procs) + 1]
    /\ UNCHANGED <<global_config, status_doc, disk_segments, cache_dirs, session_dirs>>
    /\ PMFrame

\* terminate_process, lines 435-441: SIGTERM to the tracked process if alive
TerminateProcess(chat_id) ==
    /\ orch.pc = "idle"
    /\ chat_id \in scenario.sessions
    /\ Len(procs) > 0
    /\ IF chat_id \in DOMAIN running_processes
       THEN LET pid == running_processes[chat_id] IN
            /\ procs' = IF procs[pid].alive
                        THEN [procs EXCEPT ![pid].sigterm = TRUE]
                        ELSE procs
            /\ orch' = [IdleOrch EXCEPT
                            !.pc = IF procs[pid].alive THEN "join" ELSE "del",
                            !.op = "terminate_process", !.sid = chat_id,
                            !.target = pid]
       ELSE /\ orch' = [IdleOrch EXCEPT !.pc = "status",
                            !.op = "terminate_process", !.sid = chat_id]
            /\ UNCHANGED procs
    /\ UNCHANGED <<global_config, running_processes, status_doc, disk_segments,
                   cache_dirs, session_dirs>>
    /\ PMFrame

\* a join that gives up after the grace period and goes on without the kill
TerminateJoinNoEscalation ==
    /\ orch.pc = "join"
    /\ orch' = [orch EXCEPT !.pc = "del",
                            !.escalated = procs[orch.target].alive]
    /\ UNCHANGED <<global_config, running_processes, procs, status_doc,
                   disk_segments, cache_dirs, session_dirs>>
    /\ PMFrame

\* lines 441-443: join(timeout=5) returns when the process has ended or the
\* five seconds are over; is_alive() then chooses the forced kill
TerminateJoin ==
    /\ orch.pc = "join"
    /\ orch' = [orch EXCEPT
                    !.pc = IF procs[orch.target].alive THEN "kill" ELSE "del",
                    !.escalated = procs[orch.target].alive]
    /\ UNCHANGED <<global_config, running_processes, procs, status_doc,
                   disk_segments, cache_dirs, session_dirs>>
    /\ PMFrame

\* lines 445-446: kill() then join() without a timeout
TerminateKill ==
    /\ orch.pc = "kill"
    /\ procs' = [procs EXCEPT ![orch.target] = Ended(@)]
    /\ orch' = [orch EXCEPT !.pc = "del"]
    /\ UNCHANGED <<global_config, running_processes, status_doc, disk_segments,
                   cache_dirs, session_dirs>>
    /\ PMFrame

\* line 449: del self.running_processes[chat_id]
TerminateDel ==
    /\ orch.pc = "del"
    /\ running_processes' =
           [k \in DOMAIN running_processes \ {orch.sid} |-> running_processes[k]]
    /\ orch' = [orch EXCEPT !.pc = "status"]
    /\ UNCHANGED <<global_config, procs, status_doc, disk_segments, cache_dirs,
                   session_dirs>>
    /\ PMFrame

\* lines 454-460, first half of update_session_status: status.json is read
TerminateStatusRead ==
    /\ orch.pc = "status"
    /\ orch' = IF global_config = "set"
               THEN [orch EXCEPT !.pc = "write",
                        !.upd = ReadForUpdate(orch.sid, "indexing_status",
                                    [status |-> "terminated", step |-> "Terminated"])]
               ELSE IdleOrch
    /\ session_dirs' = IF global_config = "set"
                       THEN GetSessionStatusFile(orch.sid)
                       ELSE session_dirs
    /\ UNCHANGED <<global_config, running_processes, procs, status_doc,
                   disk_segments, cache_dirs>>
    /\ PMFrame

\* second half: the merged document is written, terminate_process returns
TerminateStatusWrite ==
    /\ orch.pc = "write"
    /\ status_doc' = [status_doc EXCEPT ![orch.sid] =
            UpdateSessionStatus(orch.upd.snap, orch.upd.type, orch.upd.patch)]
    /\ orch' = [orch EXCEPT !.pc = "idle", !.upd = NoUpd]
    /\ UNCHANGED <<global_config, running_processes, procs, disk_segments,
                   cache_dirs, session_dirs>>
    /\ PMFrame

(***************************************************************************)
(*            index_video_worker_process and insert_video                  *)
(***************************************************************************)
Running(p, at) ==
    /\ Alive(p)
    /\ procs[p].kind = "index"
    /\ procs[p].pc = at
    /\ procs[p].upd = NoUpd

WorkerFrame == UNCHANGED <<global_config, running_processes, orch>> /\ PMFrame

\* a progress_callback that writes nothing
CallbackSilent(w, step_name) == w

\* the worker calls progress_callback(step_name, message): update_status
\* reads status.json here and writes in StatusWrite
Callback(w, step_name) ==
    [w EXCEPT !.upd = ReadForUpdate(w.session, "indexing_status",
                                    ProgressPatch(step_name))]

\* a handler that starts the pipeline again instead of recording the error
RaiseRetry(w) == [w EXCEPT !.pc = "video", !.vi = 1]

\* an exception reaches the handler at lines 706-712
Raise(w) ==
    [w EXCEPT !.pc = "exit", !.outcome = "error",
              !.upd = ReadForUpdate(w.session, "indexing_status",
                            [status |-> "error", step |-> "Error"])]

\* update_session_status, lines 92-95, and lines 689-690 of progress_callback
StatusWrite(p) ==
    /\ Alive(p)
    /\ procs[p].upd # NoUpd
    /\ LET u == procs[p].upd
           written == UpdateSessionStatus(u.snap, u.type, u.patch)
       IN  status_doc' = [status_doc EXCEPT ![procs[p].session] =
                IF u.video # "None" /\ u.patch.step = "One Video Completed"
                THEN AddIndexedVideo(written, u.video)
                ELSE written]
    /\ procs' = [procs EXCEPT ![p].upd = NoUpd]
    /\ UNCHANGED <<disk_segments, cache_dirs, session_dirs>>
    /\ WorkerFrame

\* lines 625-629
WorkerBegin(p) ==
    /\ Running(p, "begin")
    /\ procs' = [procs EXCEPT ![p] = [Callback(@, "Initializing") EXCEPT !.pc = "verify"]]
    /\ UNCHANGED <<status_doc, disk_segments, cache_dirs, session_dirs>>
    /\ WorkerFrame

\* a worker whose VideoRAG does not read the segments the working
\* directory holds
WorkerVerifyFresh(p) ==
    /\ Running(p, "verify")
    /\ LET w == procs[p] IN
        procs' = [procs EXCEPT ![p] =
            IF ~Fails(p, "verify") /\ ~VerifyRaises /\ ~PostInitRaises
            THEN [w EXCEPT !.pc = "video",
                           !.loaded = DOMAIN disk_segments[w.session]]
            ELSE Raise([w EXCEPT !.fault = TRUE])]
    /\ UNCHANGED <<status_doc, disk_segments, cache_dirs, session_dirs>>
    /\ WorkerFrame

\* lines 632-677: the service answers get_status or not; VideoRAG(...) loads
\* the session's stores from the working directory
WorkerVerify(p) ==
    /\ Running(p, "verify")
    /\ LET w == procs[p] IN
        procs' = [procs EXCEPT ![p] =
            IF ~Fails(p, "verify") /\ ~VerifyRaises /\ ~PostInitRaises
            THEN [w EXCEPT !.pc = "video",
                           !.data = disk_segments[w.session],
                           !.loaded = DOMAIN disk_segments[w.session]]
            ELSE Raise([w EXCEPT !.fault = TRUE])]
    /\ UNCHANGED <<status_doc, disk_segments, cache_dirs, session_dirs>>
    /\ WorkerFrame

\* ---- the functions of asr.py and caption.py

\* speech_to_text_online, asr.py:76-100: a segment whose task raised is
\* logged and gets no entry in the result
SpeechToText(outcome) ==
    [i \in {j \in Segs : outcome[j] # "raise"} |-> SpeechText(i)]

\* a caption task that lets the exception of the model call through
ProcessSingleCaptionUncaught(i, outcome) ==
    [raised |-> outcome = "raise", caption |-> CleanCaption(RawCaption(i))]

\* _process_single_caption, caption.py:31-45
ProcessSingleCaption(i, outcome) ==
    [raised |-> FALSE,
     caption |-> IF outcome = "raise" THEN "" ELSE CleanCaption(RawCaption(i))]

\* segment_caption_async, caption.py:51-57: transcripts[index] for every
\* segment of segment_index2name, before any caption call; caption.py:62-68:
\* gather hands on an exception of a task; segment_caption, caption.py:78-86,
\* turns either into RuntimeError
SegmentCaptionRaises(transcripts, outcome) ==
    \/ \E i \in Segs : i \notin DOMAIN transcripts
    \/ \E i \in Segs : ProcessSingleCaption(i, outcome[i]).raised

\* caption.py:71-72: caption_result[index] = caption
SegmentCaption(outcome) ==
    [i \in Segs |-> ProcessSingleCaption(i, outcome[i]).caption]

\* merge_segment_information, caption.py:88-97
MergeSegmentInformation(transcripts, captions) ==
    [i \in Segs |-> [transcript |-> transcripts[i], caption |-> captions[i]]]

Stages == {"split", "asr", "caption", "upsert", "encode"}
Did(w, stage) == [w EXCEPT !.did = @ \cup {<<VideoName(w.list[w.vi]), stage>>}]

\* a skip test that never finds the video
AlreadyStoredNever(w, video_name) == FALSE

\* videorag.py:314: video_name in self.video_segments._data
AlreadyStored(w, video_name) == video_name \in DOMAIN w.data

\* videorag.py:311-324 and 403-404: next video of the list, or the graph step
InsertVideoLoop(p) ==
    /\ Running(p, "video")
    /\ procs' = [procs EXCEPT ![p] =
         IF @.vi > Len(@.list)
         THEN [Callback(@, "Creating Knowledge Graph") EXCEPT !.pc = "graph"]
         ELSE IF AlreadyStored(@, VideoName(@.list[@.vi]))
              THEN [@ EXCEPT !.vi = @ + 1]
              ELSE [Callback(@, "Video Splitting") EXCEPT !.pc = "split"]]
    /\ UNCHANGED <<status_doc, disk_segments, cache_dirs, session_dirs>>
    /\ WorkerFrame

\* videorag.py:326-337: split_video fills _cache/<video_name>
InsertVideoSplit(p) ==
    /\ Running(p, "split")
    /\ LET w == procs[p]
           name == VideoName(w.list[w.vi])
       IN  /\ procs' = [procs EXCEPT ![p] =
                IF ~Fails(p, "split")
                THEN [Callback(Did(w, "split"), "Audio Processing") EXCEPT !.pc = "asr"]
                ELSE Raise([Did(w, "split") EXCEPT !.fault = TRUE])]
           /\ cache_dirs' = [cache_dirs EXCEPT ![w.session] = @ \cup {name}]
    /\ UNCHANGED <<status_doc, disk_segments, session_dirs>>
    /\ WorkerFrame

\* videorag.py:339-349: speech_to_text
InsertVideoAsr(p) ==
    /\ Running(p, "asr")
    /\ LET w == procs[p]
           name == VideoName(w.list[w.vi])
       IN  procs' = [procs EXCEPT ![p] =
              IF SpeechToTextRaises
              THEN Raise([Did(w, "asr") EXCEPT !.fault = TRUE])
              ELSE [Callback(Did(Did(w, "asr"), "recognition"), "Visual Analyzing")
                      EXCEPT !.pc = "caption",
                             !.tr = SpeechToText(scenario.asr)]]
    /\ UNCHANGED <<status_doc, disk_segments, cache_dirs, session_dirs>>
    /\ WorkerFrame

\* videorag.py:352-386: saving_video_segments, segment_caption, the merge and
\* the upsert into video_segments
InsertVideoCaption(p) ==
    /\ Running(p, "caption")
    /\ LET w == procs[p]
           name == VideoName(w.list[w.vi])
           tried == [Did(w, "caption") EXCEPT !.tr = <<>>]
       IN  procs' = [procs EXCEPT ![p] =
              IF SegmentCaptionRaises(w.tr, scenario.cap)
              THEN Raise(tried)
              ELSE [Callback(Did(tried, "upsert"), "Feature Encoding") EXCEPT
                      !.pc = "encode",
                      !.data = Put(@, name,
                         MergeSegmentInformation(w.tr, SegmentCaption(scenario.cap)))]]
    /\ UNCHANGED <<status_doc, disk_segments, cache_dirs, session_dirs>>
    /\ WorkerFrame

\* an encode step that leaves _cache/<video_name> where it is
InsertVideoEncodeKeepCache(p) ==
    /\ Running(p, "encode")
    /\ LET w == procs[p]
       IN  procs' = [procs EXCEPT ![p] =
                IF ~Fails(p, "encode")
                THEN [Callback(Did(w, "encode"), "Saving Video Information")
                        EXCEPT !.pc = "save"]
                ELSE Raise([Did(w, "encode") EXCEPT !.fault = TRUE])]
    /\ UNCHANGED <<status_doc, disk_segments, cache_dirs, session_dirs>>
    /\ WorkerFrame

\* videorag.py:388-400: the feature upsert through the ImageBind client,
\* then the segment cache of the video is removed
InsertVideoEncode(p) ==
    /\ Running(p, "encode")
    /\ LET w == procs[p]
           name == VideoName(w.list[w.vi])
       IN  /\ procs' = [procs EXCEPT ![p] =
                IF ~Fails(p, "encode")
                THEN [Callback(Did(w, "encode"), "Saving Video Information")
                        EXCEPT !.pc = "save"]
                ELSE Raise([Did(w, "encode") EXCEPT !.fault = TRUE])]
           /\ cache_dirs' = IF ~Fails(p, "encode")
                            THEN [cache_dirs EXCEPT ![w.session] = @ \ {name}]
                            ELSE cache_dirs
    /\ UNCHANGED <<status_doc, disk_segments, session_dirs>>
    /\ WorkerFrame

\* videorag.py:401 and 502-512: _save_video_segments writes the store
InsertVideoSave(p) ==
    /\ Running(p, "save")
    /\ disk_segments' = [disk_segments EXCEPT ![procs[p].session] = procs[p].data]
    /\ procs' = [procs EXCEPT ![p].pc = "video", ![p].vi = @ + 1]
    /\ UNCHANGED <<status_doc, cache_dirs, session_dirs>>
    /\ WorkerFrame

\* videorag.py:406-410 and 449-490: ainsert builds the graph; its finally
\* clause flushes the stores whether or not it failed
InsertVideoGraph(p) ==
    /\ Running(p, "graph")
    /\ disk_segments' = [disk_segments EXCEPT ![procs[p].session] = procs[p].data]
    /\ procs' = [procs EXCEPT ![p] =
            IF ~Fails(p, "graph")
            THEN [Callback(@, "Completed") EXCEPT !.pc = "final"]
            ELSE Raise([@ EXCEPT !.fault = TRUE])]
    /\ UNCHANGED <<status_doc, cache_dirs, session_dirs>>
    /\ WorkerFrame

\* videorag_api.py:698-702
WorkerFinal(p) ==
    /\ Running(p, "final")
    /\ procs' = [procs EXCEPT ![p] =
            [@ EXCEPT !.pc = "exit", !.outcome = "completed",
                      !.upd = ReadForUpdate(procs[p].session, "indexing_status",
                                [status |-> "completed", step |-> "Completed"])]]
    /\ UNCHANGED <<status_doc, disk_segments, cache_dirs, session_dirs>>
    /\ WorkerFrame

\* the worker function returns and the process ends
WorkerExit(p) ==
    /\ Running(p, "exit")
    /\ procs' = [procs EXCEPT ![p] = Ended(@)]
    /\ UNCHANGED <<status_doc, disk_segments, cache_dirs, session_dirs>>
    /\ WorkerFrame

\* SIGTERM has its default disposition in the worker: the process ends at
\* whatever point it has reached, unless it stays blocked past the grace period
WorkerSigterm(p) ==
    /\ Alive(p)
    /\ procs[p].sigterm
    /\ procs' = [procs EXCEPT ![p] = Ended(@)]
    /\ UNCHANGED <<status_doc, disk_segments, cache_dirs, session_dirs>>
    /\ WorkerFrame

\* an indexing run, from the request to the end of the worker
RunNext ==
    \/ SetGlobalConfig
    \/ \E chat_id \in Sessions, video_path_list \in VideoLists :
            StartVideoIndexing(chat_id, video_path_list)
    \/ StartIndexingSpawn
    \/ \E p \in Pids :
        \/ StatusWrite(p)
        \/ WorkerBegin(p)
        \/ WorkerVerify(p)
        \/ InsertVideoLoop(p)
        \/ InsertVideoSplit(p)
        \/ InsertVideoAsr(p)
        \/ InsertVideoCaption(p)
        \/ InsertVideoEncode(p)
        \/ InsertVideoSave(p)
        \/ InsertVideoGraph(p)
        \/ WorkerFinal(p)
        \/ WorkerExit(p)

\* the requests of the process manager and the workers they start and stop
PMNext ==
    \/ RunNext
    \/ \E chat_id \in Sessions : TerminateProcess(chat_id)
    \/ TerminateJoin
    \/ TerminateKill
    \/ TerminateDel
    \/ TerminateStatusRead
    \/ TerminateStatusWrite
    \/ \E p \in Pids : WorkerSigterm(p)

(***************************************************************************)
(*             start_query_processing and query_worker_process             *)
(***************************************************************************)
\* the query strings of POST /api/sessions/<chat_id>/query
Queries == {"q1", "q2"}

\* the response of videorag_instance.query for a query
AnswerText(query) == "answer to " \o query

\* query_worker_process entered in a fresh process
NewQueryWorker(chat_id, query) ==
    [NewIndexWorker(chat_id, <<>>) EXCEPT !.kind = "query", !.query = query]

QRunning(p, at) ==
    /\ Alive(p)
    /\ procs[p].kind = "query"
    /\ procs[p].pc = at
    /\ procs[p].upd = NoUpd

LiveQueryWorkers(chat_id) ==
    {p \in Spawned : procs[p].alive /\ procs[p].kind = "query"
                     /\ procs[p].session = chat_id}

\* start_query_processing, lines 397-405, first half of update_session_status
StartQueryProcessing(chat_id, query) ==
    /\ orch.pc = "idle"
    /\ global_config = "set"
    /\ chat_id \in scenario.sessions
    /\ Len(procs) < Min(scenario.runs, MaxProcs)
    /\ Cardinality({p \in Spawned : procs[p].alive}) < scenario.overlap
    /\ session_dirs' = GetSessionStatusFile(chat_id)
    /\ orch' = [IdleOrch EXCEPT
                  !.pc = "qspawn", !.op = "start_query_processing",
                  !.sid = chat_id,
                  !.upd = ReadForUpdate(chat_id, "query_status",
                            [status |-> "processing", step |-> "Initializing",
                             message |-> "Starting query processing...",
                             query |-> query, answer |-> "None"])]
    /\ UNCHANGED <<global_config, running_processes, procs, status_doc,
                   disk_segments, cache_dirs>>
    /\ PMFrame

\* lines 92-95 and 407-425: the merged document is written, the process
\* started and recorded under f"{chat_id}_query"
StartQuerySpawn ==
    /\ orch.pc = "qspawn"
    /\ status_doc' = [status_doc EXCEPT ![orch.sid] =
            UpdateSessionStatus(orch.upd.snap, orch.upd.type, orch.upd.patch)]
    /\ procs' = Append(procs, NewQueryWorker(orch.sid, orch.upd.patch.query))
    /\ running_processes' = RecordProcess(QueryKey(orch.sid), Len(procs) + 1)
    /\ orch' = [orch EXCEPT !.pc = "idle", !.target = Len(procs) + 1,
                            !.upd = NoUpd]
    /\ UNCHANGED <<global_config, disk_segments, cache_dirs, session_dirs>>
    /\ PMFrame

\* update_query_status(status_data): read here, written in StatusWrite
QueryCallback(w, patch) ==
    [w EXCEPT !.upd = ReadForUpdate(w.session, "query_status", patch)]

\* the texts of the exceptions raised at lines 758, 765 and inside query
ServiceError == "Failed to connect to ImageBind service"
DirectoryError == "Session working directory does not exist"
RetrievalError == "query raised"
CredentialError == "ali_dashscope_api_key is required"

\* the handler of a query worker ends without recording the failure
QueryRaiseSilent(w, e) == [w EXCEPT !.pc = "exit", !.outcome = "error"]

\* an exception e reaches the handler at lines 823-831
QueryRaise(w, e) ==
    [QueryCallback(w, [status |-> "error", step |-> "Error", query |-> w.query,
                       message |-> "Query processing failed: " \o e])
        EXCEPT !.pc = "exit", !.outcome = "error"]

\* lines 742-749
QueryBegin(p) ==
    /\ QRunning(p, "begin")
    /\ procs' = [procs EXCEPT ![p] =
          [QueryCallback(@, [status |-> "processing", step |-> "Initializing",
                             message |-> "Initializing query processing...",
                             query |-> procs[p].query])
             EXCEPT !.pc = "verify"]]
    /\ session_dirs' = GetSessionStatusFile(procs[p].session)
    /\ UNCHANGED <<status_doc, disk_segments, cache_dirs>>
    /\ WorkerFrame

\* lines 751-797: the status check of the model service, the assert on the
\* session directory, VideoRAG(...) loading the stores, the "Processing" step
QueryVerify(p) ==
    /\ QRunning(p, "verify")
    /\ LET w == procs[p] IN
        procs' = [procs EXCEPT ![p] =
            IF VerifyRaises
            THEN QueryRaise([w EXCEPT !.fault = TRUE], ServiceError)
            ELSE IF w.session \notin session_dirs
            THEN QueryRaise([w EXCEPT !.fault = TRUE], DirectoryError)
            ELSE IF PostInitRaises
            THEN QueryRaise([w EXCEPT !.fault = TRUE], CredentialError)
            ELSE [QueryCallback(w, [status |-> "processing", step |-> "Processing",
                                    message |-> "Processing your query...",
                                    query |-> w.query])
                    EXCEPT !.pc = "query",
                           !.data = disk_segments[w.session],
                           !.loaded = DOMAIN disk_segments[w.session]]]
    /\ UNCHANGED <<status_doc, disk_segments, cache_dirs, session_dirs>>
    /\ WorkerFrame

\* lines 799-812: retrieval and generation, then the "Completed" record
QueryRun(p) ==
    /\ QRunning(p, "query")
    /\ LET w == [procs[p] EXCEPT !.did = @ \cup {<<"query", "retrieval">>}] IN
        procs' = [procs EXCEPT ![p] =
            IF scenario.answer = "raise"
            THEN QueryRaise([w EXCEPT !.fault = TRUE], RetrievalError)
            ELSE [QueryCallback(w, [status |-> "completed", step |-> "Completed",
                                    message |-> "Query processing completed",
                                    query |-> w.query,
                                    answer |-> AnswerText(w.query)])
                    EXCEPT !.pc = "exit", !.outcome = "completed"]]
    /\ UNCHANGED <<status_doc, disk_segments, cache_dirs, session_dirs>>
    /\ WorkerFrame

\* the worker function returns and the process ends
QueryExit(p) ==
    /\ QRunning(p, "exit")
    /\ procs' = [procs EXCEPT ![p] = Ended(@)]
    /\ UNCHANGED <<status_doc, disk_segments, cache_dirs, session_dirs>>
    /\ WorkerFrame

\* the query requests and the workers they start
QueryOnlyNext ==
    \/ \E chat_id \in Sessions, query \in Queries :
            StartQueryProcessing(chat_id, query)
    \/ StartQuerySpawn
    \/ \E p \in Pids :
        \/ QueryBegin(p)
        \/ QueryVerify(p)
        \/ QueryRun(p)
        \/ QueryExit(p)

\* indexing runs and queries
QueryNext == RunNext \/ QueryOnlyNext

(***************************************************************************)
(*        delete_session, cleanup, failed spawns and worker crashes        *)
(***************************************************************************)
\* delete_session, lines 464-473: terminate_process(chat_id) and nothing else
\* (the call at lines 435-441 made for the request to delete)
DeleteSession(chat_id) ==
    /\ orch.pc = "idle"
    /\ chat_id \in scenario.sessions
    /\ Len(procs) > 0
    /\ IF chat_id \in DOMAIN running_processes
       THEN LET pid == running_processes[chat_id] IN
            /\ procs' = IF procs[pid].alive
                        THEN [procs EXCEPT ![pid].sigterm = TRUE]
                        ELSE procs
            /\ orch' = [IdleOrch EXCEPT
                            !.pc = IF procs[pid].alive THEN "join" ELSE "del",
                            !.op = "delete_session", !.sid = chat_id,
                            !.target = pid]
       ELSE /\ orch' = [IdleOrch EXCEPT !.pc = "status",
                            !.op = "delete_session", !.sid = chat_id]
            /\ UNCHANGED procs
    /\ UNCHANGED <<global_config, running_processes, status_doc, disk_segments,
                   cache_dirs, session_dirs>>
    /\ PMFrame

\* lines 373-391: process.start() raises; the except clause logs and re-raises
StartIndexingSpawnFails ==
    /\ orch.pc = "spawn" /\ orch.op = "start_video_indexing"
    /\ orch' = [orch EXCEPT !.pc = "idle", !.target = 0]
    /\ UNCHANGED <<global_config, running_processes, procs, status_doc,
                   disk_segments, cache_dirs, session_dirs>>
    /\ PMFrame

\* lines 398-429: the status update is done, then process.start() raises
StartQuerySpawnFails ==
    /\ orch.pc = "qspawn"
    /\ status_doc' = [status_doc EXCEPT ![orch.sid] =
            UpdateSessionStatus(orch.upd.snap, orch.upd.type, orch.upd.patch)]
    /\ orch' = [orch EXCEPT !.pc = "idle", !.target = 0, !.upd = NoUpd]
    /\ UNCHANGED <<global_config, running_processes, procs, disk_segments,
                   cache_dirs, session_dirs>>
    /\ PMFrame

\* a worker process ends at any point without running its handler
\* (out of memory, a native crash, a kill from outside)
WorkerCrash(p) ==
    /\ Alive(p)
    /\ procs' = [procs EXCEPT ![p] = Ended(@)]
    /\ UNCHANGED <<status_doc, disk_segments, cache_dirs, session_dirs>>
    /\ WorkerFrame

\* lines 590-606 and 717-733: the first statements of a worker set the
\* process title that psutil reads as cmdline[0]
Named(p) == procs[p].pc # "begin"

\* the processes behind the handles of running_processes
Tracked == {running_processes[k] : k \in DOMAIN running_processes}

\* cleanup, lines 525-532: terminate() for every tracked process alive
ProcessCleanup ==
    /\ orch.pc = "idle"
    /\ Len(procs) > 0
    /\ procs' = [p \in Spawned |->
                    IF p \in Tracked /\ procs[p].alive
                    THEN [procs[p] EXCEPT !.sigterm = TRUE]
                    ELSE procs[p]]
    /\ orch' = [IdleOrch EXCEPT !.pc = "sleep", !.op = "cleanup",
                                !.tracked = Tracked]
    /\ UNCHANGED <<global_config, running_processes, status_doc, disk_segments,
                   cache_dirs, session_dirs>>
    /\ PMFrame

\* lines 535-546: after the two seconds, kill() and join(timeout=3) for
\* every tracked process still alive
CleanupKill ==
    /\ orch.pc = "sleep"
    /\ LET still == {p \in Tracked : procs[p].alive} IN
        /\ procs' = [p \in Spawned |->
                        IF p \in still THEN Ended(procs[p]) ELSE procs[p]]
        /\ orch' = [orch EXCEPT !.pc = "sweep", !.killed = still]
    /\ UNCHANGED <<global_config, running_processes, status_doc, disk_segments,
                   cache_dirs, session_dirs>>
    /\ PMFrame

\* the processes of the table that are not workers of this server: each
\* with its pid and its cmdline, a list of arguments, each argument a
\* sequence of pieces of text.  "self" is os.getpid() of the server, here
\* installed under a directory whose name holds the words of a worker name
ProcessTable ==
    {[pid |-> "self",
      cmdline |-> << <<"/opt/", "videorag-index-", "app/", "videorag-api-server">> >>],
     [pid |-> "shell", cmdline |-> << <<"/bin/", "bash">>, <<"videorag-index-", "a">> >>],
     [pid |-> "kernel", cmdline |-> << >>],
     [pid |-> "stale", cmdline |-> << <<"videorag-query-", "b">> >>]}

\* needle in proc_name
Contains(proc_name, needle) == \E i \in 1..Len(proc_name) : proc_name[i] = needle

\* a test that forgets the pid of the server
SweepMatchesSelf(proc_info) ==
    /\ Len(proc_info.cmdline) > 0
    /\ \/ Contains(proc_info.cmdline[1], "videorag-index-")
       \/ Contains(proc_info.cmdline[1], "videorag-query-")

\* lines 553-563: the test of one entry of psutil.process_iter
SweepMatches(proc_info) ==
    /\ Len(proc_info.cmdline) > 0
    /\ proc_info.pid # "self"
    /\ \/ Contains(proc_info.cmdline[1], "videorag-index-")
       \/ Contains(proc_info.cmdline[1], "videorag-query-")

\* a cleanup that stops at the tracked handles
CleanupNoSweep ==
    /\ orch.pc = "sweep"
    /\ running_processes' = <<>>
    /\ orch' = [orch EXCEPT !.pc = "exited"]
    /\ UNCHANGED <<global_config, procs, status_doc, disk_segments, cache_dirs,
                   session_dirs>>
    /\ PMFrame

\* lines 548-567: every other process whose cmdline[0] holds
\* 'videorag-index-' or 'videorag-query-' is killed, then
\* running_processes.clear(); the server process ends after cleanup
CleanupSweep ==
    /\ orch.pc = "sweep"
    /\ LET found == {p \in Spawned : procs[p].alive /\ Named(p)} IN
        /\ procs' = [p \in Spawned |->
                        IF p \in found THEN Ended(procs[p]) ELSE procs[p]]
        /\ orch' = [orch EXCEPT !.pc = "exited", !.swept = found,
                    !.swept_others =
                        {x.pid : x \in {y \in scenario.table : SweepMatches(y)}}]
    /\ running_processes' = <<>>
    /\ UNCHANGED <<global_config, status_doc, disk_segments, cache_dirs,
                   session_dirs>>
    /\ PMFrame

\* requests on one session with the services up, two workers at a time
LifeScenario ==
    [sessions |-> {"a"}, overlap |-> 2, runs |-> 2, nsegs |-> 1,
     lists |-> {<<PathA>>},
     asr |-> <<"text">>, cap |-> <<"text">>, fault |-> "none",
     service |-> "loaded", answer |-> "text", api_key |-> "sk-key",
     table |-> ProcessTable]

\* the same requests with one worker at a time
CrashScenario == [LifeScenario EXCEPT !.overlap = 1, !.runs = MaxProcs]

\* the steps of the workers
WorkerSteps ==
    \E p \in Pids :
        \/ StatusWrite(p)
        \/ WorkerBegin(p)
        \/ WorkerVerify(p)
        \/ InsertVideoLoop(p)
        \/ InsertVideoSplit(p)
        \/ InsertVideoAsr(p)
        \/ InsertVideoCaption(p)
        \/ InsertVideoEncode(p)
        \/ InsertVideoSave(p)
        \/ InsertVideoGraph(p)
        \/ WorkerFinal(p)
        \/ WorkerExit(p)
        \/ WorkerSigterm(p)
        \/ QueryBegin(p)
        \/ QueryVerify(p)
        \/ QueryRun(p)
        \/ QueryExit(p)

\* the steps that go on by themselves once a request is made: the rest of
\* the request in the server and the statements of the workers
CrashSteps ==
    \/ StartIndexingSpawn
    \/ StartQuerySpawn
    \/ CleanupKill
    \/ CleanupSweep
    \/ WorkerSteps

\* starts and shutdown, and what can go wrong with a process
CrashNext ==
    \/ RunNext
    \/ QueryOnlyNext
    \/ StartIndexingSpawnFails
    \/ StartQuerySpawnFails
    \/ \E p \in Pids : WorkerCrash(p)
    \/ \E p \in Pids : WorkerSigterm(p)
    \/ ProcessCleanup
    \/ CleanupKill
    \/ CleanupSweep

\* a list of two videos, indexed by one worker at a time
ResumeScenario ==
    [LifeScenario EXCEPT !.overlap = 1, !.runs = 2,
                         !.lists = {<<PathA, PathB>>}]

\* indexing runs, and a kill of the worker at any point
ResumeNext ==
    \/ RunNext
    \/ \E p \in Pids : WorkerCrash(p)

\* two sessions, the id of one being the query key of the other, and one
\* worker at a time
KeysScenario ==
    [LifeScenario EXCEPT !.sessions = {"a", QueryKey("a")}, !.overlap = 1]

\* starts, terminate and delete on the sessions
KeysNext ==
    \/ PMNext
    \/ QueryOnlyNext
    \/ \E chat_id \in Sessions : DeleteSession(chat_id)

\* starts, delete and shutdown with the workers they stop
LifeNext ==
    \/ RunNext
    \/ QueryOnlyNext
    \/ \E chat_id \in Sessions : DeleteSession(chat_id)
    \/ TerminateJoin
    \/ TerminateKill
    \/ TerminateDel
    \/ TerminateStatusRead
    \/ TerminateStatusWrite
    \/ \E p \in Pids : WorkerSigterm(p)
    \/ ProcessCleanup
    \/ CleanupKill
    \/ CleanupSweep

(***************************************************************************)
(*                         HTTPImageBindClient                             *)
(***************************************************************************)
\* the three calls of the client
ClientMethods == {"get_status", "encode_video_segments", "encode_string_query"}

\* what comes back for one request: requests raises (no connection, a
\* timeout), or a response with a status code and a body.  The body is a
\* JSON object with success true and the result, one with success false,
\* one with success true and nothing else, or no JSON at all
StatusCodes == {200, 500}
Bodies == {"success", "failure", "no_result", "not_json"}
Replies ==
    {[kind |-> "transport_error", code |-> 0, body |-> "none"]}
        \cup {[kind |-> "response", code |-> c, body |-> b] :
                c \in StatusCodes, b \in Bodies}

NoReply == [kind |-> "none", code |-> 0, body |-> "none"]

\* no call under way, nothing done yet
IdleCall == [pc |-> "idle", method |-> "none", requests |-> 0,
             reply |-> NoReply, ret |-> "none", log |-> <<>>]

HttpFrame == UNCHANGED <<mgrVars, storeVars, pmVars, asr, graph, cap, shut>>

\* lines 262-265, 290-293, 318-320: self.session.post / self.session.get
ClientRequest(method) ==
    /\ http.pc = "idle"
    /\ Len(http.log) < MaxCalls
    /\ http' = [http EXCEPT !.pc = "sent", !.method = method, !.requests = 1,
                            !.reply = NoReply, !.ret = "none"]
    /\ HttpFrame

\* what the call makes of a reply, lines 267-281: the exception of requests
\* passes through, a code other than 200 raises, response.json() raises on
\* a body that is no JSON, success false raises, result["result"] raises
\* when the key is missing
ClientOutcome(reply) ==
    IF reply.kind = "transport_error" THEN "raise"
    ELSE IF reply.code # 200 THEN "raise"
    ELSE IF reply.body = "success" THEN "value"
    ELSE "raise"

\* a client that sends the request again after a transport error
ClientReceiveRetry(reply) ==
    /\ http.pc = "sent"
    /\ http' = IF reply.kind = "transport_error" /\ http.requests < 2
               THEN [http EXCEPT !.requests = @ + 1]
               ELSE [http EXCEPT !.pc = "done", !.reply = reply,
                                 !.ret = ClientOutcome(reply)]
    /\ HttpFrame

\* the request comes back and the call goes through lines 267-285
ClientReceive(reply) ==
    /\ http.pc = "sent"
    /\ http' = [http EXCEPT !.pc = "done", !.reply = reply,
                            !.ret = ClientOutcome(reply)]
    /\ HttpFrame

\* the call returns or raises to its caller (lines 281, 283-285)
ClientReturn ==
    /\ http.pc = "done"
    /\ http' = [IdleCall EXCEPT
                  !.log = Append(http.log,
                            [method |-> http.method, requests |-> http.requests,
                             reply |-> http.reply, ret |-> http.ret])]
    /\ HttpFrame

\* calls of the client, one after the other, with every reply
ClientNext ==
    \/ \E method \in ClientMethods : ClientRequest(method)
    \/ \E reply \in Replies : ClientReceive(reply)
    \/ ClientReturn

(***************************************************************************)
(*        speech_to_text_async / speech_to_text_online (asr.py)            *)
(***************************************************************************)
\* the segments a video may be split into for the transcription stage
AsrSegs == 1..MaxAsrSegs

\* global_config.get('ali_dashscope_api_key')
ApiKeys == {"None", "", "sk-key"}

\* the stage has not been entered
IdleAsr == [pc |-> "idle", n |-> 0, api_key |-> "None", permits |-> 0,
            task |-> [i \in AsrSegs |-> "none"], transcripts |-> {}]

AsrFrame == UNCHANGED <<mgrVars, storeVars, pmVars, http, graph, cap, shut>>

\* the recognition calls that have been made and have not come back
InFlight == {i \in AsrSegs : asr.task[i] = "call"}

\* asr.py:114-119 and 58-70: the credential test, asyncio.Semaphore(
\* max_concurrent), one coroutine per segment of segment_index2name
SpeechToTextAsync(n, api_key) ==
    /\ asr.pc = "idle"
    /\ asr' = IF api_key \in {"None", ""}
              THEN [IdleAsr EXCEPT !.pc = "raised", !.n = n, !.api_key = api_key]
              ELSE [IdleAsr EXCEPT
                        !.pc = "as_completed", !.n = n, !.api_key = api_key,
                        !.permits = max_concurrent,
                        !.task = [i \in AsrSegs |->
                                    IF i <= n THEN "created" ELSE "none"]]
    /\ AsrFrame

\* a stage that creates its coroutines without a semaphore to pass
AcquireUnbounded(i) ==
    /\ asr.pc = "as_completed"
    /\ asr.task[i] = "created"
    /\ asr' = [asr EXCEPT !.task[i] = "call"]
    /\ AsrFrame

\* asr.py:12 and 16-26: `async with semaphore` lets the coroutine in when a
\* permit is free; recognition.call goes to the executor
Acquire(i) ==
    /\ asr.pc = "as_completed"
    /\ asr.task[i] = "created"
    /\ asr.permits > 0
    /\ asr' = [asr EXCEPT !.task[i] = "call", !.permits = @ - 1]
    /\ AsrFrame

\* asr.py:30-42: the call comes back with a result or raises; leaving the
\* `async with` block gives the permit back either way
RecognitionReturns(i, ok) ==
    /\ asr.pc = "as_completed"
    /\ asr.task[i] = "call"
    /\ asr' = [asr EXCEPT !.task[i] = IF ok THEN "result" ELSE "raised",
                          !.permits = @ + 1]
    /\ AsrFrame

\* asr.py:80-96: the loop over asyncio.as_completed takes one finished task
Collect(i) ==
    /\ asr.pc = "as_completed"
    /\ asr.task[i] \in {"result", "raised"}
    /\ asr' = [asr EXCEPT
                 !.task[i] = IF @ = "result" THEN "collected" ELSE "failed",
                 !.transcripts = IF asr.task[i] = "result"
                                 THEN @ \cup {i} ELSE @]
    /\ AsrFrame

\* asr.py:98-100: every task has been awaited, transcripts is returned
SpeechToTextReturns ==
    /\ asr.pc = "as_completed"
    /\ \A i \in AsrSegs : asr.task[i] \in {"none", "collected", "failed"}
    /\ asr' = [asr EXCEPT !.pc = "returned"]
    /\ AsrFrame

\* the transcription stage of one video
AsrNext ==
    \/ \E n \in 0..MaxAsrSegs, api_key \in ApiKeys : SpeechToTextAsync(n, api_key)
    \/ \E i \in AsrSegs : Acquire(i)
    \/ \E i \in AsrSegs, ok \in BOOLEAN : RecognitionReturns(i, ok)
    \/ \E i \in AsrSegs : Collect(i)
    \/ SpeechToTextReturns

(***************************************************************************)
(*        Graph indexing: VideoRAG.ainsert (videorag.py:449-490)           *)
(***************************************************************************)

\* what a segment can say
Contents == {"c1", "c2"}

\* the segment contents one call is given, segment by segment
SegmentContents == UNION {[1..n -> Contents] : n \in 0..MaxSegs}

\* the identity of a chunk is derived from its content alone
ChunkKey(content) == <<"chunk-", content>>

\* line 453: get_chunks; two segments that say the same make one chunk
get_chunks(new_videos) == {ChunkKey(new_videos[i]) : i \in DOMAIN new_videos}

\* what entity_extraction_func does with the chunks it is given
Extractions == {"kg", "none", "raise"}

IdleGraph ==
    [pc          |-> "idle",
     calls       |-> 0,      \* the calls of ainsert made so far
     text_chunks |-> {},     \* self.text_chunks: the committed chunk records
     chunks_vdb  |-> {},     \* self.chunks_vdb: the chunk vectors
     inserting   |-> {},     \* inserting_chunks of the call under way
     handled     |-> {},     \* the chunks earlier calls upserted a vector for
     upserted    |-> {},     \* the chunks this call upserted a vector for
     extracted   |-> {},     \* the chunks this call gave to the extraction
     ret         |-> "none"]

GraphFrame == UNCHANGED <<mgrVars, storeVars, pmVars, http, asr, cap, shut>>

\* line 458: text_chunks.filter_keys keeps the keys text_chunks has not
filter_keys(keys) == keys \ graph.text_chunks

\* lines 449-470: chunking, the filter on text_chunks, the early return
\* when nothing is new, the upsert of the chunk vectors
Ainsert(new_video_segment) ==
    /\ graph.pc = "idle"
    /\ graph.calls < MaxInserts
    /\ LET inserting_chunks == filter_keys(get_chunks(new_video_segment))
           started == [graph EXCEPT !.calls = @ + 1,
                                    !.handled = @ \cup graph.upserted,
                                    !.upserted = {}, !.extracted = {},
                                    !.inserting = {}]
       IN  graph' = IF inserting_chunks = {}
                    THEN [started EXCEPT !.ret = "all present"]
                    ELSE [started EXCEPT !.pc = "extract",
                                         !.inserting = inserting_chunks,
                                         !.chunks_vdb = @ \cup inserting_chunks,
                                         !.upserted = inserting_chunks,
                                         !.ret = "none"]
    /\ GraphFrame

\* lines 475-490: the entity extraction; text_chunks.upsert is reached only
\* when it returns a graph; the finally clause saves every store
EntityExtraction(outcome) ==
    /\ graph.pc = "extract"
    /\ graph' = [graph EXCEPT
            !.pc = "idle",
            !.extracted = graph.inserting,
            !.inserting = {},
            !.text_chunks = IF outcome = "kg" THEN @ \cup graph.inserting ELSE @,
            !.ret = CASE outcome = "kg" -> "committed"
                      [] outcome = "none" -> "no new entities"
                      [] OTHER -> "raised"]
    /\ GraphFrame

\* calls of ainsert, one after the other
GraphNext ==
    \/ \E new_video_segment \in SegmentContents : Ainsert(new_video_segment)
    \/ \E outcome \in Extractions : EntityExtraction(outcome)

(***************************************************************************)
(*   The caption stage: caption.py:31-74 and dashscope_caption_complete    *)
(*   (_llm.py:155-179)                                                     *)
(***************************************************************************)

\* _llm.py:156: stop=stop_after_attempt(5)
stop_after_attempt == 5

\* _llm.py:158: retry=retry_if_exception_type((RateLimitError,
\* APIConnectionError))
RetryOn == {"RateLimitError", "APIConnectionError"}

\* what chat.completions.create can come back with
CaptionReplies == {"text", "BadRequestError"} \cup RetryOn

\* the stage has not been entered
IdleCap == [pc |-> "idle", n |-> 0,
            call     |-> [i \in AsrSegs |-> "none"],
            attempts |-> [i \in AsrSegs |-> 0],       \* attempt_number of the retry
            last     |-> [i \in AsrSegs |-> "none"]]  \* what the last attempt came back with

CapFrame == UNCHANGED <<mgrVars, storeVars, pmVars, http, asr, graph, shut>>

\* caption.py:46-68: the stage follows the transcription of the video;
\* asyncio.gather gets one _process_single_caption per segment
SegmentCaptionAsync ==
    /\ asr.pc = "returned"
    /\ cap.pc = "idle"
    /\ cap' = [IdleCap EXCEPT
                 !.pc = "gather", !.n = asr.n,
                 !.call = [i \in AsrSegs |-> IF i <= asr.n THEN "created" ELSE "none"]]
    /\ CapFrame

\* caption.py:33-40: the coroutine builds the content and awaits
\* caption_model_func; that is the first attempt of the retry
CaptionModelFunc(i) ==
    /\ cap.pc = "gather"
    /\ cap.call[i] = "created"
    /\ cap' = [cap EXCEPT !.call[i] = "attempt", !.attempts[i] = 1]
    /\ CapFrame

\* a retry that goes on after any exception
DashscopeCaptionCompleteRetryAll(i, reply) ==
    /\ cap.pc = "gather"
    /\ cap.call[i] = "attempt"
    /\ cap' = IF reply = "text"
              THEN [cap EXCEPT !.call[i] = "caption", !.last[i] = reply,
                               !.attempts[i] = 0]
              ELSE IF cap.attempts[i] < stop_after_attempt
              THEN [cap EXCEPT !.attempts[i] = @ + 1, !.last[i] = reply]
              ELSE [cap EXCEPT !.call[i] = "empty", !.last[i] = reply,
                               !.attempts[i] = 0]
    /\ CapFrame

\* _llm.py:155-179 and caption.py:40-45: one attempt comes back. A text is
\* the caption; RateLimitError and APIConnectionError lead to the next
\* attempt while fewer than stop_after_attempt were made; every other
\* exception, and the RetryError after the last attempt, reach the except
\* clause of _process_single_caption, which returns "".
DashscopeCaptionComplete(i, reply) ==
    /\ cap.pc = "gather"
    /\ cap.call[i] = "attempt"
    /\ cap' = IF reply = "text"
              THEN [cap EXCEPT !.call[i] = "caption", !.last[i] = reply,
                               !.attempts[i] = 0]
              ELSE IF reply \in RetryOn /\ cap.attempts[i] < stop_after_attempt
              THEN [cap EXCEPT !.attempts[i] = @ + 1, !.last[i] = reply]
              ELSE [cap EXCEPT !.call[i] = "empty", !.last[i] = reply,
                               !.attempts[i] = 0]
    /\ CapFrame

\* caption.py:70-74: gather has every result, caption_result is returned
SegmentCaptionAsyncReturns ==
    /\ cap.pc = "gather"
    /\ \A i \in AsrSegs : cap.call[i] \in {"none", "caption", "empty"}
    /\ cap' = [cap EXCEPT !.pc = "returned"]
    /\ CapFrame

\* the caption stage of one video
CapNext ==
    \/ SegmentCaptionAsync
    \/ \E i \in AsrSegs : CaptionModelFunc(i)
    \/ \E i \in AsrSegs, reply \in CaptionReplies : DashscopeCaptionComplete(i, reply)
    \/ SegmentCaptionAsyncReturns

\* the transcription and the caption stage of one video
CallsNext == AsrNext \/ CapNext

(***************************************************************************)
(*      shutdown: cleanup_on_exit, signal_handler and the main block       *)
(***************************************************************************)
\* the frames of the main thread, the innermost last: [fn, pc].  A Python
\* signal handler runs in the main thread between two bytecodes of whatever
\* the thread was executing, as a new innermost frame
MainFrame == [fn |-> "main", pc |-> "serve"]
HandlerFrame == [fn |-> "signal_handler", pc |-> "cleanup"]
CleanupFrame == [fn |-> "cleanup_on_exit", pc |-> "test"]
AtexitFrame == [fn |-> "atexit", pc |-> "call"]

\* videorag_api.py:524-567: the stretches of VideoRAGProcessManager.cleanup
PMCleanupSteps == <<"terminate", "sleep", "kill", "sweep">>

\* lines 570-571 and 1347: the globals when the main block starts app.run
IdleShut == [stack |-> <<MainFrame>>,
             cleanup_called |-> FALSE,      \* _cleanup_called
             process_manager |-> FALSE,     \* process_manager is not None
             imagebind_manager |-> FALSE,   \* global_imagebind_manager is not None
             exc |-> "none",                \* the exception propagating
             signals |-> 0,                 \* the signals delivered
             pm_entered |-> 0,              \* entries of process_manager.cleanup
             pm_finished |-> 0,             \* returns of process_manager.cleanup
             mgr_entered |-> 0,             \* entries of global_imagebind_manager.cleanup
             mgr_finished |-> 0,            \* returns of global_imagebind_manager.cleanup
             exited |-> FALSE]              \* the server process has exited

ShutFrame == UNCHANGED <<mgrVars, storeVars, pmVars, http, asr, graph, cap>>

Depth == Len(shut.stack)
Top == shut.stack[Depth]
Executing(fn, pc) ==
    /\ Depth > 0 /\ shut.exc = "none"
    /\ Top.fn = fn /\ Top.pc = pc
Pop(stack) == SubSeq(stack, 1, Len(stack) - 1)
\* the innermost frame moves to pc
Goto(pc) == [shut.stack EXCEPT ![Depth].pc = pc]
\* the innermost frame moves to pc and calls cleanup_on_exit
CallCleanup(pc) == Append(Goto(pc), CleanupFrame)

\* get_process_manager, lines 580-585, called by a request while the server
\* serves
GetProcessManager ==
    /\ Executing("main", "serve") /\ ~shut.process_manager
    /\ shut' = [shut EXCEPT !.process_manager = TRUE]
    /\ ShutFrame

\* get_imagebind_manager, lines 573-578
GetImagebindManager ==
    /\ Executing("main", "serve") /\ ~shut.imagebind_manager
    /\ shut' = [shut EXCEPT !.imagebind_manager = TRUE]
    /\ ShutFrame

\* lines 1379-1380: SIGINT or SIGTERM is delivered and signal_handler is
\* entered on top of what the main thread was doing
Signal(signum) ==
    /\ Depth > 0 /\ shut.exc = "none"
    /\ shut.stack[1].fn = "main"
    /\ shut.signals < MaxSignals
    /\ shut' = [shut EXCEPT !.stack = Append(@, HandlerFrame),
                            !.signals = @ + 1]
    /\ ShutFrame

\* signal_handler, line 1370
SignalHandlerCleanup ==
    /\ Executing("signal_handler", "cleanup")
    /\ shut' = [shut EXCEPT !.stack = CallCleanup("exit")]
    /\ ShutFrame

\* signal_handler, line 1371: exit(0) raises SystemExit
SignalHandlerExit ==
    /\ Executing("signal_handler", "exit")
    /\ shut' = [shut EXCEPT !.exc = "SystemExit"]
    /\ ShutFrame

\* cleanup_on_exit, lines 1353-1354
CleanupOnExitTest ==
    /\ Executing("cleanup_on_exit", "test")
    /\ shut' = [shut EXCEPT !.stack = IF shut.cleanup_called
                                      THEN Pop(@) ELSE Goto("set")]
    /\ ShutFrame

\* line 1355
CleanupOnExitSet ==
    /\ Executing("cleanup_on_exit", "set")
    /\ shut' = [shut EXCEPT !.cleanup_called = TRUE,
                            !.stack = Goto("process_manager")]
    /\ ShutFrame

\* lines 1359-1360: process_manager.cleanup() is entered when there is a
\* process manager
CleanupOnExitProcessManager ==
    /\ Executing("cleanup_on_exit", "process_manager")
    /\ IF shut.process_manager
       THEN shut' = [shut EXCEPT !.pm_entered = @ + 1,
                                 !.stack = Goto(PMCleanupSteps[1])]
       ELSE shut' = [shut EXCEPT !.stack = Goto("imagebind_manager")]
    /\ ShutFrame

\* lines 524-567: process_manager.cleanup() goes through its stretches and
\* returns
ProcessManagerCleanup(i) ==
    /\ Executing("cleanup_on_exit", PMCleanupSteps[i])
    /\ IF i < Len(PMCleanupSteps)
       THEN shut' = [shut EXCEPT !.stack = Goto(PMCleanupSteps[i + 1])]
       ELSE shut' = [shut EXCEPT !.pm_finished = @ + 1,
                                 !.stack = Goto("imagebind_manager")]
    /\ ShutFrame

\* lines 1361-1362
CleanupOnExitImagebindManager ==
    /\ Executing("cleanup_on_exit", "imagebind_manager")
    /\ IF shut.imagebind_manager
       THEN shut' = [shut EXCEPT !.mgr_entered = @ + 1,
                                 !.stack = Goto("release")]
       ELSE shut' = [shut EXCEPT !.stack = Pop(@)]
    /\ ShutFrame

\* lines 243-250 and 1363: global_imagebind_manager.cleanup() returns and
\* so does cleanup_on_exit
ImagebindManagerCleanup ==
    /\ Executing("cleanup_on_exit", "release")
    /\ shut' = [shut EXCEPT !.mgr_finished = @ + 1, !.stack = Pop(@)]
    /\ ShutFrame

\* SystemExit is no Exception: the except of line 1364 does not catch it, nor
\* do those inside process_manager.cleanup, and it leaves cleanup_on_exit
\* and signal_handler wherever they were; in the main block it runs the
\* finally clause (line 1441) and then ends the main module
Unwind ==
    /\ Depth > 0 /\ shut.exc # "none"
    /\ shut' = [shut EXCEPT
                    !.stack = IF Top.fn \in {"cleanup_on_exit", "signal_handler"}
                              THEN Pop(@)
                              ELSE IF Top.pc \in {"serve", "except", "exit"}
                                   THEN Goto("finally")
                                   ELSE <<AtexitFrame>>,
                    !.exc = IF Top.fn \in {"cleanup_on_exit", "signal_handler"}
                            THEN @ ELSE "none"]
    /\ ShutFrame

\* line 1432: app.run returns, or (lines 1437-1440) the try block raises an
\* Exception
AppRun(how) ==
    /\ Executing("main", "serve")
    /\ shut' = [shut EXCEPT !.stack = IF how = "return" THEN Goto("finally")
                                      ELSE Goto("except")]
    /\ ShutFrame

\* lines 1438-1439
MainExcept ==
    /\ Executing("main", "except")
    /\ shut' = [shut EXCEPT !.stack = CallCleanup("exit")]
    /\ ShutFrame

\* line 1440: exit(1)
MainExit ==
    /\ Executing("main", "exit")
    /\ shut' = [shut EXCEPT !.exc = "SystemExit"]
    /\ ShutFrame

\* lines 1441-1442
MainFinally ==
    /\ Executing("main", "finally")
    /\ shut' = [shut EXCEPT !.stack = CallCleanup("leave")]
    /\ ShutFrame

\* the main module ends and the interpreter runs what atexit has
MainLeaves ==
    /\ Executing("main", "leave")
    /\ shut' = [shut EXCEPT !.stack = <<AtexitFrame>>]
    /\ ShutFrame

\* line 1378: atexit.register(cleanup_on_exit)
Atexit ==
    /\ Executing("atexit", "call")
    /\ shut' = [shut EXCEPT !.stack = CallCleanup("done")]
    /\ ShutFrame

\* the server process is gone
ProcessExits ==
    /\ Executing("atexit", "done")
    /\ shut' = [shut EXCEPT !.stack = <<>>, !.exited = TRUE]
    /\ ShutFrame

\* the server from app.run to the end of its process
ShutNext ==
    \/ GetProcessManager
    \/ GetImagebindManager
    \/ \E signum \in {"SIGINT", "SIGTERM"} : Signal(signum)
    \/ SignalHandlerCleanup
    \/ SignalHandlerExit
    \/ CleanupOnExitTest
    \/ CleanupOnExitSet
    \/ CleanupOnExitProcessManager
    \/ \E i \in 1..Len(PMCleanupSteps) : ProcessManagerCleanup(i)
    \/ CleanupOnExitImagebindManager
    \/ ImagebindManagerCleanup
    \/ Unwind
    \/ \E how \in {"return", "Exception"} : AppRun(how)
    \/ MainExcept
    \/ MainExit
    \/ MainFinally
    \/ MainLeaves
    \/ Atexit
    \/ ProcessExits

\* no call to a collaborator is under way and the server serves
AuxInit ==
    /\ http = IdleCall /\ asr = IdleAsr /\ graph = IdleGraph /\ cap = IdleCap
    /\ shut = IdleShut

(***************************************************************************)
(*                            Specifications                               *)
(***************************************************************************)
\* the shared model service under NThreads server threads
InitModel == MgrInit /\ StoreInit({1}) /\ AuxInit /\ PMInit(ProcScenario)
SpecModel == InitModel /\ [][MgrNext]_vars

\* one status file, one writer, NReaders readers
InitStore == MgrInit /\ StoreInit({1}) /\ AuxInit /\ PMInit(ProcScenario)
SpecStore == InitStore /\ [][StoreNext]_vars

\* one status file written by every process that may write it
InitWriters == MgrInit /\ StoreInit(WriterIds) /\ AuxInit /\ PMInit(ProcScenario)
SpecWriters == InitWriters /\ [][WritersNext]_vars

\* the process manager with workers that may overlap
InitProc == MgrInit /\ StoreInit({1}) /\ AuxInit /\ PMInit(ProcScenario)
SpecProc == InitProc /\ [][PMNext]_vars

\* indexing runs one after the other
InitPipe == MgrInit /\ StoreInit({1}) /\ AuxInit /\ \E sc \in PipeScenarios : PMInit(sc)
SpecPipe == InitPipe /\ [][RunNext]_vars

\* indexing runs and queries one after the other
InitQuery == MgrInit /\ StoreInit({1}) /\ AuxInit /\ \E sc \in QueryScenarios : PMInit(sc)
SpecQuery == InitQuery /\ [][QueryNext]_vars

\* the processes of a session until delete or shutdown
InitLife == MgrInit /\ StoreInit({1}) /\ AuxInit /\ PMInit(LifeScenario)
SpecLife == InitLife /\ [][LifeNext]_vars

\* the main thread of the server from app.run to the end of the process
InitShut == MgrInit /\ StoreInit({1}) /\ AuxInit /\ PMInit(ProcScenario)
SpecShut == InitShut /\ [][ShutNext]_vars

\* failed spawns, crashes and shutdown; a step that can go on by itself is
\* eventually taken
InitCrash == MgrInit /\ StoreInit({1}) /\ AuxInit /\ PMInit(CrashScenario)
SpecCrash == InitCrash /\ [][CrashNext]_vars /\ WF_vars(CrashSteps)

\* the calls of one HTTPImageBindClient
InitClient == MgrInit /\ StoreInit({1}) /\ AuxInit /\ PMInit(ProcScenario)
SpecClient == InitClient /\ [][ClientNext]_vars

\* one transcription stage; the event loop runs what can run and every
\* recognition call comes back
InitAsr == MgrInit /\ StoreInit({1}) /\ AuxInit /\ PMInit(ProcScenario)
SpecAsr == InitAsr /\ [][AsrNext]_vars /\ WF_vars(AsrNext)

\* calls of ainsert on one VideoRAG working directory
InitGraph == MgrInit /\ StoreInit({1}) /\ AuxInit /\ PMInit(ProcScenario)
SpecGraph == InitGraph /\ [][GraphNext]_vars

\* the handles of two sessions in running_processes
InitKeys == MgrInit /\ StoreInit({1}) /\ AuxInit /\ PMInit(KeysScenario)
SpecKeys == InitKeys /\ [][KeysNext]_vars

\* a killed indexing run and the run that follows it; a worker that can
\* take a step takes one
InitResume == MgrInit /\ StoreInit({1}) /\ AuxInit /\ PMInit(ResumeScenario)
SpecResume == InitResume /\ [][ResumeNext]_vars /\ WF_vars(WorkerSteps)

\* the calls one video goes through: its transcription, then its captions
InitCalls == MgrInit /\ StoreInit({1}) /\ AuxInit /\ PMInit(ProcScenario)
SpecCalls == InitCalls /\ [][CallsNext]_vars

(***************************************************************************)
(*                     Claims about the status store                       *)
(***************************************************************************)
\* C1: with one writer in write_status_json and any readers in
\* read_status_json, a finished read never parsed a truncated file, and what
\* it returned is a whole document the path held at some moment of the read.
C1_AtomicWrite ==
    \A r \in Readers :
        (rd[r].pc = "idle" /\ rd[r].ret # "none")
            => (~rd[r].partial /\ rd[r].legit)

\* a read returned the old document although the writer renamed a new one
\* over the path while the read was under way
C1_Witness ==
    \E r \in Readers :
        /\ rd[r].pc = "idle"
        /\ rd[r].ret \in Docs
        /\ rd[r].ret # Stored
        /\ rd[r].raced

(***************************************************************************)
(*                 Claims about the shared model service                   *)
(***************************************************************************)
\* thread t is inside the model's forward pass
InForward(t) == thr[t].pc = "forward"

\* thread t is inside the with block of initialize, ensure_imagebind_loaded,
\* release_imagebind or cleanup
InMutation(t) ==
    /\ thr[t].pc \in {"body", "load"}
    /\ thr[t].meth \in {"initialize", "ensure", "release", "cleanup"}

\* C7: at most one forward pass is in progress at any time, and no configure,
\* load or release runs while a forward pass is in progress.
C7_SharedModelExclusivity ==
    \A t \in Threads, u \in Threads :
        (t # u /\ InForward(t)) => (~InForward(u) /\ ~InMutation(u))

\* a forward pass runs while another thread waits for the lock, after an
\* encode request of a third call has already been served
C7_Witness ==
    \E t \in Threads, u \in Threads :
        /\ t # u
        /\ InForward(t)
        /\ thr[u].pc = "lock"
        /\ usage_count >= 2

\* C9: an encode call that finds the service not loaded raises "not loaded",
\* starts no forward pass and leaves the service state, usage counter
\* included, as it was.
C9_NotLoadedEncodeFails ==
    [][\A t \in Threads :
         ( /\ thr[t].pc = "body"
           /\ thr[t].meth \in {"encode_video", "encode_query"}
           /\ ~is_loaded
           /\ thr'[t] # thr[t] )
         => /\ thr'[t].pc = "idle"
            /\ thr'[t].ret = "RuntimeError: not loaded"
            /\ UNCHANGED <<is_initialized, is_loaded, embedder, usage_count,
                           model_path, model_config, weight_loads>>]_vars

\* an encode call was refused after the model had been loaded, used and
\* released again
C9_Witness ==
    \E t \in Threads :
        /\ thr[t].op \in {"encode_video", "encode_query"}
        /\ thr[t].pc = "idle"
        /\ thr[t].ret = "RuntimeError: not loaded"
        /\ is_initialized /\ ~is_loaded
        /\ usage_count > 0

\* C10: between a configure and the next release the weights are loaded at
\* most once, exactly once when the service is loaded, whatever the number of
\* ensure_imagebind_loaded calls and the threads they come from.
C10_LoadedExactlyOnce ==
    /\ weight_loads <= 1
    /\ is_loaded => weight_loads = 1

\* two threads both got True from ensure_imagebind_loaded and the weights
\* were loaded once
C10_Witness ==
    \E t \in Threads, u \in Threads :
        /\ t # u
        /\ thr[t].op = "ensure" /\ thr[t].pc = "idle" /\ thr[t].ret = "True"
        /\ thr[u].op = "ensure" /\ thr[u].pc = "idle" /\ thr[u].ret = "True"
        /\ is_loaded
        /\ weight_loads = 1


(***************************************************************************)
(*                 Claims about indexing runs and workers                  *)
(***************************************************************************)
\* the run of worker p is over: the handler has returned or raised, and the
\* last status update of the run is written
RunOver(p) == Alive(p) /\ procs[p].pc = "exit" /\ procs[p].upd = NoUpd

Performed(p, video_name, stage) == <<video_name, stage>> \in procs[p].did
IndexingStatus(chat_id) == status_doc[chat_id].idx.status
SegmentRecord(chat_id, video_name) == disk_segments[chat_id][video_name]

\* C2: when the transcription of exactly one segment N raises, every caption
\* call succeeds and no other stage fails, a run that transcribed a video ends
\* with the indexing channel "completed" and the stored transcript of segment
\* N of that video is the empty string.
C2_TranscriptionIsolation ==
    \A p \in Spawned : \A N \in Segs : \A path \in VideoPaths :
        ( /\ RunOver(p)
          /\ ~procs[p].fault
          /\ \A i \in Segs : (scenario.asr[i] = "raise") <=> (i = N)
          /\ \A i \in Segs : scenario.cap[i] = "text"
          /\ Performed(p, VideoName(path), "asr") )
        => /\ IndexingStatus(procs[p].session) = "completed"
           /\ VideoName(path) \in DOMAIN disk_segments[procs[p].session]
           /\ SegmentRecord(procs[p].session, VideoName(path))[N].transcript = ""

\* C3: when every transcription succeeds and no stage other than caption
\* calls fails, a run that captioned a video ends with the indexing channel
\* "completed"; in the stored record of the video a segment whose caption
\* call raised has the caption "" and every other segment has its own
\* caption.
C3_CaptionIsolation ==
    \A p \in Spawned : \A path \in VideoPaths :
        ( /\ RunOver(p)
          /\ ~procs[p].fault
          /\ \A i \in Segs : scenario.asr[i] = "text"
          /\ Performed(p, VideoName(path), "caption") )
        => /\ procs[p].outcome = "completed"
           /\ IndexingStatus(procs[p].session) = "completed"
           /\ VideoName(path) \in DOMAIN disk_segments[procs[p].session]
           /\ \A i \in Segs :
                SegmentRecord(procs[p].session, VideoName(path))[i].caption =
                    IF scenario.cap[i] = "raise" THEN "" ELSE "caption-" \o Digit[i]

\* a finished run in which the caption call of one segment raised and that
\* of another did not
C3_Witness ==
    \E p \in Spawned : \E i, j \in Segs :
        /\ RunOver(p)
        /\ \A k \in Segs : scenario.asr[k] = "text"
        /\ scenario.cap[i] = "raise" /\ scenario.cap[j] = "text"
        /\ Performed(p, "a", "caption")
        /\ IndexingStatus(procs[p].session) = "completed"
        /\ SegmentRecord(procs[p].session, "a")[i].caption = ""
        /\ SegmentRecord(procs[p].session, "a")[j].caption # ""

\* C4: when a run is over with the indexing channel "completed", every video
\* whose segments the run stored is in the list get_indexed_videos returns.
C4_CompletedVideosListed ==
    \A p \in Spawned :
        (RunOver(p) /\ IndexingStatus(procs[p].session) = "completed")
        => \A k \in 1..Len(procs[p].list) :
              Performed(p, VideoName(procs[p].list[k]), "upsert")
              => \E n \in 1..Len(GetIndexedVideos(procs[p].session)) :
                    GetIndexedVideos(procs[p].session)[n] = procs[p].list[k]

NoStage(q, video_name) == \A st \in Stages : ~Performed(q, video_name, st)

\* C5 as stated: of two starts for the same session with the same video
\* path, the second performs none of the stages of that video.
C5_SecondStartNoOp ==
    \A p, q \in Spawned : \A path \in VideoPaths :
        ( /\ p < q
          /\ procs[p].session = procs[q].session
          /\ \E k \in 1..Len(procs[p].list) : procs[p].list[k] = path
          /\ \E k \in 1..Len(procs[q].list) : procs[q].list[k] = path )
        => NoStage(q, VideoName(path))

\* C5: a worker performs no stage of a video whose name was in the segment
\* store when the worker loaded it, and the store keeps a record under that
\* name.
C5_IdempotentReindex ==
    \A q \in Spawned : \A video_name \in procs[q].loaded :
        /\ NoStage(q, video_name)
        /\ video_name \in DOMAIN disk_segments[procs[q].session]

\* the second run, given the path the first run indexed, is over
C5_Witness ==
    /\ Len(procs) = 2
    /\ procs[1].outcome = "completed"
    /\ procs[1].list = <<PathA>> /\ procs[2].list = <<PathA>>
    /\ RunOver(2)
    /\ "a" \in procs[2].loaded
    /\ NoStage(2, "a")
    /\ procs[2].outcome = "completed"

\* C6: a session has at most one live indexing worker, and every live
\* worker is the one its session's handle tracks.
C6_SingleActiveWorker ==
    \A chat_id \in Sessions :
        /\ Cardinality(LiveIndexWorkers(chat_id)) <= 1
        /\ \A p \in LiveIndexWorkers(chat_id) :
              /\ chat_id \in DOMAIN running_processes
              /\ running_processes[chat_id] = p

\* C8: at the step where terminate_process returns for a session whose
\* handle was tracked, the tracked process no longer exists, the indexing
\* channel reads "terminated" and the session has no tracked handle.
C8_TerminateEscalation ==
    [][ ( /\ orch.op = "terminate_process"
          /\ orch.pc = "write"
          /\ orch'.pc = "idle"
          /\ orch.target # 0 )
        => /\ ~procs'[orch.target].alive
           /\ status_doc'[orch.sid].idx.status = "terminated"
           /\ orch.sid \notin DOMAIN running_processes' ]_vars

\* terminate_process has returned after the forced kill of a worker that
\* was still alive when the grace period ended
C8_Witness ==
    /\ orch.pc = "idle"
    /\ orch.op = "terminate_process"
    /\ orch.escalated
    /\ orch.target # 0
    /\ ~procs[orch.target].alive
    /\ IndexingStatus(orch.sid) = "terminated"
    /\ orch.sid \notin DOMAIN running_processes

(***************************************************************************)
(*                 Claims about the life cycle of the manager              *)
(***************************************************************************)
ReleaseReturns(t) ==
    thr[t].pc = "body" /\ thr[t].meth = "release" /\ thr'[t].pc # "body"
CleanupReturns(t) ==
    thr[t].pc = "body" /\ thr[t].meth = "cleanup" /\ thr'[t].pc = "idle"

\* C11: under any interleaving of the manager's methods, a loaded model is
\* an initialized one in every state; the step that ends release_imagebind
\* on a loaded model leaves the manager initialized and not loaded; and at
\* the step where cleanup returns the manager is neither initialized nor
\* loaded.
C11_Lifecycle ==
    /\ [](is_loaded => is_initialized)
    /\ [][\A t \in Threads :
            /\ (ReleaseReturns(t) /\ is_loaded)
                    => (is_initialized' /\ ~is_loaded')
            /\ CleanupReturns(t) => (~is_initialized' /\ ~is_loaded')]_vars

(***************************************************************************)
(*                     Claims about failed status writes                   *)
(***************************************************************************)
\* C12: at the step where write_status_json ends after one of its statements
\* failed, the temp path names no file, the call raises, and the status path
\* holds what it held when the call began.
C12_WriteFailurePolicy ==
    [][\A w \in WriterIds :
        (w \in DOMAIN wr /\ wr[w].pc = "except" /\ wr'[w].pc = "idle")
        => /\ names'.temp = 0
           /\ wr'[w].ret = "raise"
           /\ Stored' = wr[w].before]_vars

\* a call has raised after its dump had put part of a document in the temp
\* file, over a status file that held a document
C12_Witness ==
    \E w \in DOMAIN wr :
        /\ wr[w].pc = "idle" /\ wr[w].ret = "raise"
        /\ wr[w].failed \in {"dump", "rename"}
        /\ wr[w].before \in Docs
        /\ names.temp = 0
        /\ Stored = wr[w].before


\* C13: each channel is merged, never wholesale overwritten: a step that
\* writes the indexing channel of a session's document leaves its query
\* channel and its indexed_videos list as they were, and a step that writes
\* the query channel leaves the indexing channel as it was.
C13_ChannelIndependence ==
    [][\A chat_id \in Sessions :
        /\ status_doc'[chat_id].idx # status_doc[chat_id].idx
            => /\ status_doc'[chat_id].qry = status_doc[chat_id].qry
               /\ status_doc'[chat_id].videos = status_doc[chat_id].videos
        /\ status_doc'[chat_id].qry # status_doc[chat_id].qry
            => status_doc'[chat_id].idx = status_doc[chat_id].idx]_vars


\* the query channel of a session's document
QueryStatus(chat_id) == status_doc[chat_id].qry.status

\* start_video_indexing was never called on the session of worker p
NeverIndexed(p) ==
    /\ \A q \in Spawned : procs[q].session = procs[p].session
                            => procs[q].kind = "query"
    /\ ~(orch.op = "start_video_indexing" /\ orch.sid = procs[p].session)

\* videorag_instance.query was entered by worker p
Retrieved(p) == <<"query", "retrieval">> \in procs[p].did

\* C14: a query on a session that was never indexed fails on the missing
\* working directory: when its worker is over, the query channel says
\* "error" and no retrieval or generation call was made.
C14_NeverIndexedQueryFails ==
    \A p \in Pids :
        (RunOver(p) /\ procs[p].kind = "query" /\ NeverIndexed(p))
            => /\ QueryStatus(procs[p].session) = "error"
               /\ status_doc[procs[p].session].qry.message
                        = "Query processing failed: " \o DirectoryError
               /\ ~Retrieved(p)


\* C15: a query worker reports the "Processing" step and starts retrieval
\* only if the status check answered loaded = true; with the service
\* unreachable, or configured but not loaded, the query channel ends in
\* "error" from the verification step.
C15_QueryVerifiesLoaded ==
    \A p \in Pids :
        (p \in Spawned /\ procs[p].kind = "query" /\ scenario.service # "loaded")
            => /\ ~Retrieved(p)
               /\ status_doc[procs[p].session].qry.step # "Processing"
               /\ RunOver(p) => QueryStatus(procs[p].session) = "error"


\* C16: the outcome of a query is atomic: while its worker runs the query
\* channel says "processing" with no answer, and when the worker is over
\* the channel holds one final record, "completed" with the answer text or
\* "error" with the failure message and no answer.
C16_QueryOutcomeAtomic ==
    \A p \in Pids :
        (Alive(p) /\ procs[p].kind = "query")
            => LET r == status_doc[procs[p].session].qry IN
               /\ r.query = procs[p].query
               /\ IF RunOver(p)
                  THEN \/ /\ r.status = "completed"
                          /\ r.answer = AnswerText(procs[p].query)
                          /\ procs[p].outcome = "completed"
                       \/ /\ r.status = "error"
                          /\ r.answer = "None"
                          /\ r.message \in {"Query processing failed: " \o e :
                                e \in {ServiceError, DirectoryError, RetrievalError,
                                       CredentialError}}
                          /\ procs[p].outcome = "error"
                  ELSE r.status = "processing" /\ r.answer = "None"

\* a query worker is over and the answer of its query is in the channel
C16_Witness ==
    \E p \in Pids :
        /\ RunOver(p) /\ procs[p].kind = "query"
        /\ Retrieved(p)
        /\ status_doc[procs[p].session].qry.status = "completed"
        /\ status_doc[procs[p].session].qry.answer = AnswerText(procs[p].query)


\* the stage a worker is about to perform on the video it has reached
AtStage(p, stage) ==
    /\ procs[p].pc = stage
    /\ procs[p].vi \in 1..Len(procs[p].list)

\* C17: an indexing worker performs no stage of a video twice; when it is
\* over, its last write left the indexing channel "completed" if it went
\* through the whole list and the graph step without an exception, and
\* "error" if an exception escaped, and it then only exits.
C17_IndexingOutcome ==
    \A p \in Pids :
        (Alive(p) /\ procs[p].kind = "index")
            => /\ \A stage \in Stages :
                    AtStage(p, stage)
                        => ~Performed(p, VideoName(procs[p].list[procs[p].vi]), stage)
               /\ procs[p].fault => procs[p].pc = "exit" /\ procs[p].outcome = "error"
               /\ RunOver(p)
                    => IF procs[p].outcome = "completed"
                       THEN /\ status_doc[procs[p].session].idx
                                    = [status |-> "completed", step |-> "Completed"]
                            /\ procs[p].vi > Len(procs[p].list)
                            /\ ~procs[p].fault
                       ELSE /\ procs[p].outcome = "error"
                            /\ status_doc[procs[p].session].idx
                                    = [status |-> "error", step |-> "Error"]

\* the worker whose encode stage raised is over with the channel at "error"
C17_Witness ==
    \E p \in Pids :
        /\ RunOver(p) /\ procs[p].kind = "index"
        /\ procs[p].fault
        /\ \E v \in VideoPaths : Performed(p, VideoName(v), "encode")
        /\ IndexingStatus(procs[p].session) = "error"


\* a channel says "processing" while no worker of its kind lives on the
\* session and no request is under way in the server
IndexingOrphaned(chat_id) ==
    /\ IndexingStatus(chat_id) = "processing"
    /\ LiveIndexWorkers(chat_id) = {}
    /\ orch.pc \in {"idle", "exited"}

QueryOrphaned(chat_id) ==
    /\ QueryStatus(chat_id) = "processing"
    /\ LiveQueryWorkers(chat_id) = {}
    /\ orch.pc \in {"idle", "exited"}

\* C18: a failed spawn or an unexpected exit of a worker is reported: a
\* channel left at "processing" with no worker behind it eventually reads
\* "error".
C18_LifecycleErrorsReported ==
    \A chat_id \in Sessions :
        /\ IndexingOrphaned(chat_id) ~> (IndexingStatus(chat_id) = "error")
        /\ QueryOrphaned(chat_id) ~> (QueryStatus(chat_id) = "error")


\* delete_session returns: the status write that ends its terminate_process
DeleteReturns ==
    orch.op = "delete_session" /\ orch.pc = "write" /\ orch'.pc = "idle"

\* C19: when delete(session) returns no worker of the session is alive,
\* indexing or query, and neither the key session nor session + "_query"
\* is tracked.
C19_DeleteTerminatesAll ==
    [][DeleteReturns =>
        /\ \A p \in Spawned :
                procs'[p].session = orch.sid => ~procs'[p].alive
        /\ orch.sid \notin DOMAIN running_processes'
        /\ QueryKey(orch.sid) \notin DOMAIN running_processes']_vars


\* the second loop of cleanup is done
CleanupKilled == orch.pc = "sleep" /\ orch'.pc = "sweep"

\* cleanup returns
ProcessCleanupReturns == orch.pc = "sweep" /\ orch'.pc = "exited"

\* C20: when cleanup() returns no handle is tracked, every process that was
\* tracked is dead, those it had to kill having been sent terminate first,
\* and every other live process carrying a worker name has been killed,
\* whether its handle was overwritten or not.
C20_CleanupTerminatesAll ==
    [][/\ CleanupKilled
            => \A p \in orch'.killed : procs[p].sigterm /\ ~procs'[p].alive
       /\ ProcessCleanupReturns
            => /\ DOMAIN running_processes' = {}
               /\ \A p \in orch.tracked : ~procs'[p].alive
               /\ \A p \in Spawned :
                    (procs[p].alive /\ Named(p))
                        => p \in orch'.swept /\ ~procs'[p].alive]_vars

\* cleanup has returned after killing a tracked worker that outlived the
\* terminate and sweeping a named worker whose handle had been overwritten
C20_Witness ==
    /\ orch.pc = "exited" /\ orch.op = "cleanup"
    /\ orch.killed # {}
    /\ orch.swept \ orch.tracked # {}
    /\ \A p \in Spawned : ~procs[p].alive
    /\ DOMAIN running_processes = {}


\* the name of a process of the table, its cmdline[0], carries one of the
\* two prefixes of the worker names
WorkerNamed(proc_info) ==
    /\ proc_info.cmdline # << >>
    /\ \E prefix \in {"videorag-index-", "videorag-query-"} :
            Contains(Head(proc_info.cmdline), prefix)

C22_ClientNeverRetries ==
    \A i \in 1..Len(http.log) :
        LET c == http.log[i] IN
        /\ c.requests = 1
        /\ c.ret \in {"value", "raise"}
        /\ c.ret = "value"
                => c.reply.kind = "response" /\ c.reply.code = 200
                    /\ c.reply.body = "success"
        /\ (c.reply.kind = "transport_error"
                \/ c.reply.code # 200
                \/ c.reply.body = "failure") => c.ret = "raise"

\* one call has raised on a transport error and another has given a value
C22_Witness ==
    /\ \E i \in 1..Len(http.log) :
            http.log[i].reply.kind = "transport_error" /\ http.log[i].ret = "raise"
    /\ \E i \in 1..Len(http.log) :
            http.log[i].ret = "value" /\ http.log[i].requests = 1


\* a step of read_status_json in reader r
ReadStep(r) == rd'[r] # rd[r] /\ wr' = wr

\* C23: read_status_json never fails and never writes: a step of a read
\* leaves the path and the stored document as they are; a read returns the
\* empty document when the file does not exist, and the whole document the
\* file held at some moment of the call when it exists; it returns no error.
C23_ReadNeverFails ==
    [][\A r \in Readers :
        ReadStep(r)
            => /\ names' = names
               /\ Stored' = Stored
               /\ rd'[r].pc = "idle"
                    => /\ rd'[r].ret \in Docs \cup {"{}"}
                       /\ (rd[r].pc = "idle" /\ names.target = 0)
                            => rd'[r].ret = "{}"
                       /\ rd[r].pc = "load"
                            => /\ rd'[r].ret \in Docs
                               /\ rd'[r].ret \in rd[r].during
                               /\ ~rd'[r].raced => rd'[r].ret = Stored]_vars

\* one read has returned the stored document, which a writer had put there
C23_Witness ==
    \E r \in Readers :
        /\ rd[r].pc = "idle"
        /\ rd[r].ret \in Docs
        /\ rd[r].ret = Stored
        /\ ~rd[r].raced


\* C24: the transcription calls of one stage never exceed max_concurrent at
\* a time, whatever the number of segments and the order in which the calls
\* come back; every segment's call is started in the end, and the stage
\* returns only when every call has come back and been collected.
C24_BoundedFanOut ==
    /\ [](Cardinality(InFlight) <= max_concurrent)
    /\ [](Cardinality(InFlight) + asr.permits
            = IF asr.pc \in {"as_completed", "returned"} THEN max_concurrent ELSE 0)
    /\ \A i \in AsrSegs :
            (asr.task[i] = "created") ~> (asr.task[i] # "created")
    /\ [](asr.pc = "returned"
            => \A i \in AsrSegs :
                    /\ asr.task[i] \in {"none", "collected", "failed"}
                    /\ i <= asr.n => asr.task[i] # "none")
    /\ (asr.pc = "as_completed") ~> (asr.pc = "returned")

\* more segments than permits: max_concurrent calls are out and one segment
\* waits for a permit
C24_Witness ==
    /\ asr.n > max_concurrent
    /\ Cardinality(InFlight) = max_concurrent
    /\ \E i \in AsrSegs : asr.task[i] = "created"


\* the step name the indexing channel of a session shows
IndexingStep(chat_id) == status_doc[chat_id].idx.step

\* the step name insert_video reports before the work a worker is about to do
StepBefore(pc) ==
    CASE pc = "split" -> "Video Splitting"
      [] pc = "asr" -> "Audio Processing"
      [] pc = "caption" -> "Visual Analyzing"
      [] pc = "encode" -> "Feature Encoding"
      [] pc = "save" -> "Saving Video Information"
      [] pc = "graph" -> "Creating Knowledge Graph"
      [] pc = "final" -> "Completed"

\* the order of the reports of insert_video: b may follow a in the channel
StepFollows(a, b) ==
    \/ a = "Initializing" /\ b \in {"Video Splitting", "Creating Knowledge Graph"}
    \/ a = "Video Splitting" /\ b = "Audio Processing"
    \/ a = "Audio Processing" /\ b = "Visual Analyzing"
    \/ a = "Visual Analyzing" /\ b = "Feature Encoding"
    \/ a = "Feature Encoding" /\ b = "Saving Video Information"
    \/ a = "Saving Video Information"
            /\ b \in {"Video Splitting", "Creating Knowledge Graph"}
    \/ a = "Creating Knowledge Graph" /\ b = "Completed"
    \/ b = "Error"

\* C25: the step names reach the indexing channel in the order of the
\* stages, each before the work of its stage begins: a worker about to do
\* the work of a stage finds that stage's name in the channel, the names of
\* one run follow each other in the order Video Splitting, Audio Processing,
\* Visual Analyzing, Feature Encoding, Saving Video Information for each
\* video, then Creating Knowledge Graph, then Completed.
C25_StageOrdering ==
    /\ [](\A p \in Pids :
            (Alive(p) /\ procs[p].kind = "index" /\ procs[p].upd = NoUpd
                /\ procs[p].pc \in {"split", "asr", "caption", "encode", "save",
                                    "graph", "final"})
                => IndexingStep(procs[p].session) = StepBefore(procs[p].pc))
    /\ [][\A chat_id \in Sessions :
            (IndexingStep(chat_id)' # IndexingStep(chat_id) /\ orch' = orch)
                => StepFollows(IndexingStep(chat_id), IndexingStep(chat_id)')]_vars

\* a worker that went through the stages of two videos is about to build
\* the graph
C25_Witness ==
    \E p \in Pids :
        /\ Running(p, "graph")
        /\ Performed(p, VideoName(PathA), "encode")
        /\ Performed(p, VideoName(PathB), "encode")
        /\ IndexingStep(procs[p].session) = "Creating Knowledge Graph"


\* a recognition call was dispatched by worker p for some video
Dispatched(p) == \E v \in VideoPaths : Performed(p, VideoName(v), "recognition")

\* C26: with the speech-recognition credential absent or empty no
\* transcription call is dispatched for any segment, the worker that reaches
\* the transcription stage goes straight to its error handler, and the
\* indexing channel ends in "error", never in "completed".
C26_MissingCredentialAborts ==
    \A p \in Pids :
        (Alive(p) /\ procs[p].kind = "index" /\ scenario.api_key \in {"None", ""})
            => /\ ~Dispatched(p)
               /\ procs[p].pc \notin {"caption", "encode", "save", "graph", "final"}
               /\ IndexingStatus(procs[p].session) # "completed"
               /\ RunOver(p)
                    => /\ IndexingStatus(procs[p].session) = "error"
                       /\ procs[p].outcome = "error"

\* the credential is the empty string: the worker entered the transcription
\* stage of a video and is over with the channel at "error"
C26_Witness ==
    \E p \in Pids :
        /\ scenario.api_key = ""
        /\ RunOver(p)
        /\ Performed(p, VideoName(PathA), "asr")
        /\ ~Dispatched(p)
        /\ IndexingStatus(procs[p].session) = "error"


\* the session of worker p has a _cache directory for the video
HasCache(p, video_name) == video_name \in cache_dirs[procs[p].session]

\* C27: the scratch cache of a video does not outlive a successful run: it
\* is there while the video is transcribed, captioned and encoded, it is
\* gone when the records of the video are about to be flushed, and when a
\* run is over with the channel at "completed" no video it processed has one.
C27_ScratchCacheLifetime ==
    \A p \in Pids :
        (Alive(p) /\ procs[p].kind = "index" /\ procs[p].upd = NoUpd)
            => /\ \A stage \in {"asr", "caption", "encode"} :
                    AtStage(p, stage)
                        => HasCache(p, VideoName(procs[p].list[procs[p].vi]))
               /\ AtStage(p, "save")
                    => /\ ~HasCache(p, VideoName(procs[p].list[procs[p].vi]))
                       /\ Performed(p, VideoName(procs[p].list[procs[p].vi]), "encode")
               /\ (RunOver(p) /\ IndexingStatus(procs[p].session) = "completed")
                    => \A v \in VideoPaths :
                            Performed(p, VideoName(v), "split")
                                => ~HasCache(p, VideoName(v))

\* a second run has completed after a first one that had left a cache
\* behind when its encode stage raised
C27_Witness ==
    \E p \in Pids :
        /\ p > 1
        /\ scenario.fault = "encode"
        /\ RunOver(p) /\ IndexingStatus(procs[p].session) = "completed"
        /\ Performed(p, VideoName(PathA), "encode")
        /\ cache_dirs[procs[p].session] = {}


(***************************************************************************)
(*                      Claims about graph indexing                        *)
(***************************************************************************)

\* C28: a call of ainsert upserts no chunk vector and extracts no entity
\* for a chunk an earlier call has handled, the earlier calls that stopped
\* between the vector upsert and the commit of the chunk records included,
\* and the committed chunk records have one entry per chunk identity.
C28_GraphIndexingIdempotent ==
    /\ graph.upserted \cap graph.handled = {}
    /\ graph.extracted \cap graph.handled = {}
    /\ graph.text_chunks \subseteq {ChunkKey(content) : content \in Contents}


(***************************************************************************)
(*              Claims about the calls to the capabilities                 *)
(***************************************************************************)

\* the segments of the video the two stages work on
StageSegs == {i \in AsrSegs : i <= asr.n}

\* the recognition call of segment i has been made
Transcribed(i) == asr.task[i] \in {"call", "result", "raised", "collected", "failed"}

\* caption_model_func has been called for segment i
CaptionCalled(i) == cap.call[i] \in {"attempt", "caption", "empty"}

\* the pipeline calls each capability once per segment: a call is made for
\* a segment no call was made for, and one that was made is not made again
OneCallPerSegment ==
    \A i \in AsrSegs :
        /\ (Transcribed(i)' /\ ~Transcribed(i)) => asr.task[i] = "created"
        /\ Transcribed(i) => asr'.task[i] # "created"
        /\ asr.task[i] \in {"raised", "failed"} => asr'.task[i] \in {"raised", "failed"}
        /\ (CaptionCalled(i)' /\ ~CaptionCalled(i))
                => cap.call[i] = "created" /\ cap'.attempts[i] = 1
        /\ CaptionCalled(i) => cap'.call[i] # "created"
        /\ cap.call[i] = "empty" => cap'.call[i] = "empty"

\* a stage that has returned has made the call of every segment
EverySegmentCalled ==
    /\ asr.pc = "returned" => \A i \in StageSegs : Transcribed(i)
    /\ cap.pc = "returned" => \A i \in StageSegs : CaptionCalled(i)

\* an attempt follows another one only when that one came back with a
\* RateLimitError or an APIConnectionError; any other exception ends the call
RetryOnlyOnRetryOn ==
    \A i \in AsrSegs :
        /\ cap'.attempts[i] > 1 /\ cap'.attempts[i] # cap.attempts[i]
                => /\ cap'.attempts[i] = cap.attempts[i] + 1
                   /\ cap'.last[i] \in RetryOn
        /\ (cap.call[i] = "attempt" /\ cap'.last[i] # cap.last[i]
                /\ cap'.last[i] \notin RetryOn \cup {"text"})
                => cap'.call[i] = "empty"

C30_TrackedKeysRunning ==
    \A k \in DOMAIN running_processes : Alive(running_processes[k])


(***************************************************************************)
(*                      Claims about interrupted runs                      *)
(***************************************************************************)

\* worker p was killed in the pipeline: it has ended before insert_video
\* returned or raised
Killed(p) == p \in Spawned /\ ~procs[p].alive /\ procs[p].outcome = "none"

\* worker q runs the list of worker p, which was killed before q was started
Resumes(q, p) ==
    /\ p \in Spawned /\ q \in Spawned /\ p < q
    /\ Killed(p)
    /\ procs[q].kind = "index" /\ procs[p].kind = "index"
    /\ procs[q].session = procs[p].session
    /\ procs[q].list = procs[p].list

\* the record insert_video stores for a video of the scenario
ExpectedRecord ==
    MergeSegmentInformation(SpeechToText(scenario.asr), SegmentCaption(scenario.cap))

\* what holds of a run that resumes a killed one, at its end
ResumedRunCorrect(q) ==
    LET w == procs[q]
        listed == {VideoName(w.list[i]) : i \in DOMAIN w.list}
    IN  /\ w.outcome = "completed"
        /\ IndexingStatus(w.session) = "completed"
        /\ \A name \in listed \cap w.loaded :
                /\ \A stage \in Stages : ~Performed(q, name, stage)
                /\ name \in DOMAIN disk_segments[w.session]
                /\ SegmentRecord(w.session, name) = ExpectedRecord
        /\ \A name \in listed \ w.loaded :
                /\ \A stage \in Stages \ {"upsert"} : Performed(q, name, stage)
                /\ name \in DOMAIN disk_segments[w.session]
                /\ SegmentRecord(w.session, name) = ExpectedRecord
        /\ listed \subseteq DOMAIN w.data

\* C31: when an indexing worker was killed and indexing is started again
\* with the same list, the second run, unless it is killed too, reaches
\* "completed"; the videos flushed before the kill are skipped and keep
\* their record, the others go through every stage, and the graph step is
\* given the segments of all of them.
C31_ResumableIndexing ==
    /\ [](\A p, q \in Pids :
            (Resumes(q, p) /\ RunOver(q)) => ResumedRunCorrect(q))
    /\ \A p, q \in Pids :
            (Resumes(q, p) /\ Alive(q)) ~> (RunOver(q) \/ ~Alive(q))

\* the first run was killed after it had flushed the first video and before
\* it flushed the second; the second run is over
C31_Witness ==
    /\ Resumes(2, 1)
    /\ RunOver(2)
    /\ procs[2].loaded = {VideoName(PathA)}
    /\ Performed(2, VideoName(PathB), "encode")


(***************************************************************************)
(*                  Claims about the state of the manager                  *)
(***************************************************************************)

\* C38: whenever no call is inside a with block, the manager holds a model
\* object exactly when is_loaded is true, after a failed load and after a
\* release too, so that get_status names a device only when loaded.
C38_EmbedderIffLoaded ==
    lock = 0 => (embedder # "None" <=> is_loaded)


\* thread t is inside a with block of the manager
InWithBlock(t) == thr[t].pc \in {"body", "load", "forward", "return"}

\* thread t is admitted to an encode in this step: is_loaded was true under
\* the lock and the forward pass is next
EncodeAdmitted(t) ==
    /\ thr[t].pc = "body" /\ thr[t].meth \in {"encode_video", "encode_query"}
    /\ is_loaded
    /\ thr'[t].pc = "forward"

\* C32: the dict a get_status call returns holds the initialized flag, the
\* loaded flag, the usage count and the device the manager had at one
\* instant, with no other call inside a with block at that instant, and
\* the usage count is the number of encode requests admitted in loaded
\* state so far: it starts at 0 and moves by one at each admission only.
C32_StatusSnapshot ==
    /\ [](\A t \in Threads :
            thr[t].pc = "return"
                => /\ thr[t].snap.initialized = is_initialized
                   /\ thr[t].snap.loaded = is_loaded
                   /\ thr[t].snap.total_usage_count = usage_count
                   /\ thr[t].snap.device = Device
                   /\ thr[t].snap.held
                   /\ \A u \in Threads \ {t} : ~InWithBlock(u))
    /\ [][/\ usage_count' # usage_count => \E t \in Threads : EncodeAdmitted(t)
          /\ \A t \in Threads : EncodeAdmitted(t) => usage_count' = usage_count + 1]_vars

\* a get_status call has its dict, which says loaded, a device and two uses,
\* while the threads of these uses are back from their encode calls
C32_Witness ==
    \E t \in Threads :
        /\ thr[t].pc = "return"
        /\ thr[t].snap.loaded /\ thr[t].snap.device = "device"
        /\ thr[t].snap.total_usage_count = 2
        /\ \E u \in Threads \ {t} :
                thr[u].op \in {"encode_video", "encode_query"} /\ thr[u].ret = "vector"


(***************************************************************************)
(*           Claims about several writers of one status document           *)
(***************************************************************************)

\* C33: with several processes in write_status_json on the same path, a
\* finished read never parsed a truncated file and returned a document the
\* path held during the read, the path holds one whole document whenever it
\* exists, and the file a writer is about to rename is the document this
\* writer wrote.
C33_ConcurrentWritersAtomic ==
    /\ \A r \in Readers :
            (rd[r].pc = "idle" /\ rd[r].ret # "none")
                => (~rd[r].partial /\ rd[r].legit)
    /\ names.target # 0 => Load(inode[names.target]) \in Docs
    /\ \A w \in DOMAIN wr :
            wr[w].pc = "rename"
                => names.temp # 0 /\ inode[names.temp] = Dump(wr[w].doc)


(***************************************************************************)
(*            Claims about concurrent updates of one document              *)
(***************************************************************************)

\* worker p writes, in this step, the document of the update it had begun
WorkerWrites(p, status_type) ==
    /\ p \in Spawned /\ procs[p].alive /\ procs'[p].alive
    /\ procs[p].upd.type = status_type
    /\ procs'[p].upd = NoUpd

\* the process manager writes, in this step, the document of the update it
\* had begun (terminate_process, start_query_processing)
ManagerWrites(status_type) ==
    /\ orch.upd.type = status_type
    /\ orch'.upd = NoUpd

\* C34: no update is lost across the channels of one session's document: a
\* write of an indexing_status update leaves query_status as the document
\* had it just before the write, and a write of a query_status update leaves
\* indexing_status and indexed_videos as the document had them, whatever
\* the other processes wrote since the writer read the document.
C34_NoLostUpdate ==
    [][/\ \A p \in Pids :
            /\ WorkerWrites(p, "indexing_status")
                => status_doc'[procs[p].session].qry = status_doc[procs[p].session].qry
            /\ WorkerWrites(p, "query_status")
                => status_doc'[procs[p].session].idx = status_doc[procs[p].session].idx
       /\ ManagerWrites("indexing_status")
            => status_doc'[orch.sid].qry = status_doc[orch.sid].qry
       /\ ManagerWrites("query_status")
            => status_doc'[orch.sid].idx = status_doc[orch.sid].idx]_vars


\* C35: "terminated" is stable: when terminate_process has returned and the
\* indexing channel of the session reads "terminated", no step other than
\* the next start_video_indexing of the session changes that; the workers
\* started before the terminate call write nothing over it.
C35_TerminatedStable ==
    [][\A chat_id \in Sessions :
        (/\ orch.pc = "idle"
         /\ status_doc[chat_id].exists
         /\ IndexingStatus(chat_id) = "terminated"
         /\ ~(orch'.op = "start_video_indexing" /\ orch'.pc = "spawn"
                /\ orch'.sid = chat_id))
            => status_doc'[chat_id].idx.status = "terminated"]_vars


(***************************************************************************)
(*                  Claims about the keys of the handles                   *)
(***************************************************************************)

\* the session a tracked handle was started for
HandleSession(table, all, key) == all[table[key]].session

\* C36: the handles of different sessions do not interfere: a terminate or
\* delete of a session signals and kills workers of that session only, and
\* a start never replaces the handle of a worker of another session, session
\* ids that end in "_query" included.
C36_SessionsDoNotInterfere ==
    [][/\ \A p \in Spawned :
            (procs'[p].sigterm /\ ~procs[p].sigterm) => procs[p].session = orch'.sid
       /\ (orch.pc = "kill" /\ ~procs'[orch.target].alive)
            => procs[orch.target].session = orch.sid
       /\ \A key \in DOMAIN running_processes \cap DOMAIN running_processes' :
            running_processes'[key] # running_processes[key]
                => HandleSession(running_processes', procs', key)
                        = HandleSession(running_processes, procs, key)]_vars


\* C37: in every state of a session's query channel, one reached with a
\* second start_query_processing during an earlier query too, an answer
\* other than None is there only with status "completed", and it is the
\* answer to the query of the same record.
C37_QueryAnswerConsistent ==
    \A chat_id \in Sessions :
        (status_doc[chat_id].exists
            /\ status_doc[chat_id].qry.answer \notin {"None", "absent"})
            => /\ status_doc[chat_id].qry.status = "completed"
               /\ status_doc[chat_id].qry.answer
                    = AnswerText(status_doc[chat_id].qry.query)


\* C39: whatever the shutdown triggers (signals, atexit, the handlers of the
\* main block), the bodies of the process-manager cleanup and of the model
\* cleanup are entered at most once, and the server process has not exited
\* while a process-manager cleanup that was entered has not returned
C39_ShutdownOnceAndComplete ==
    /\ shut.pm_entered <= 1
    /\ shut.mgr_entered <= 1
    /\ shut.exited => shut.pm_finished = shut.pm_entered

====
